---- MODULE Spec2Model ----
(***************************************************************************)
(* Verification model of the sentinelAI backend: the recon orchestrator    *)
(* (recon_service.run_recon), the four-layer risk engine (risk_service),   *)
(* the deterministic attack-graph builder (attack_model_service), the LLM  *)
(* merge for attack simulations (ai_service) and the posture engine        *)
(* (posture_service).                                                      *)
(*                                                                         *)
(* Conventions.  Python None is the string None.  Scores that the code     *)
(* keeps as two-decimal floats (confidence_score) are integers counting    *)
(* hundredths; an LLM-supplied posture_score counts tenths.  The em dash   *)
(* of the source's labels is written "-".                                  *)
(***************************************************************************)
EXTENDS Integers, Sequences, FiniteSets, TLC

VARIABLES
    pc,             \* position of the request being served
    subdomains,     \* run_recon: list returned by fetch_subdomains
    idx,            \* run_recon: index of the next entry of the running loop
    shodan_key,     \* config: whether SHODAN_API_KEY is set
    ip_cache,       \* shodan_scan._ip_cache: ip -> cached scan result
    resolved,       \* run_recon: resolved entries [subdomain, ip]
    scored,         \* run_recon: Layer 1-3 result of every asset, in order
    assets,         \* run_recon: the asset list (stored as the scan)
    adjust_runs,    \* number of times the Layer-4 pass has run in this scan
    base_graph,     \* /simulate: result of build_attack_graph
    llm,            \* the LLM behaviour met by the request
    simulation,     \* /simulate: result of generate_attack_simulation
    report,         \* /posture: result of generate_posture_intelligence
    graph_runs,     \* build_attack_graph runs on the stored scan, each
                    \* [assets_before, graph, assets_after]
    boot,            \* service start: environment, import position and status
    summary_call,    \* POST /summary: the LLM reply and the response delivered
    runs,            \* two run_recon calls over the module-level caches
    mongo,           \* db_service connection state, stored scans, last request served
    enum,            \* fetch_subdomains: its inputs, the set being validated, the result
    gemini_call,     \* _call_gemini followed statement by statement
    recon,           \* run_recon called as a whole: its inputs and its result
    risk_in,        \* calculate_risk called directly: its arguments
    risk_out        \* calculate_risk called directly: its result

vars == << pc, subdomains, idx, shodan_key, ip_cache, resolved, scored, assets, adjust_runs,
           base_graph, llm, simulation, report, risk_in, risk_out,
           graph_runs,
           boot,
           summary_call,
           runs,
           mongo,
           enum,
           gemini_call,
           recon >>

None == "None"

\* Value of a result variable before its operation has run.
Unset == [ unset |-> TRUE ]

Min(a, b) == IF a <= b THEN a ELSE b
Max(a, b) == IF a >= b THEN a ELSE b

\* Python `kw in s` on strings: kw is a contiguous substring of s.
Contains(kw, s) ==
    \E i \in 1..(Len(s) - Len(kw) + 1) : SubSeq(s, i, i + Len(kw) - 1) = kw

\* Python str.lower() on the characters the model's strings use.
LowerChar(c) ==
    CASE c = "A" -> "a" [] c = "B" -> "b" [] c = "C" -> "c" [] c = "D" -> "d"
      [] c = "E" -> "e" [] c = "F" -> "f" [] c = "G" -> "g" [] c = "H" -> "h"
      [] c = "I" -> "i" [] c = "J" -> "j" [] c = "K" -> "k" [] c = "L" -> "l"
      [] c = "M" -> "m" [] c = "N" -> "n" [] c = "O" -> "o" [] c = "P" -> "p"
      [] c = "Q" -> "q" [] c = "R" -> "r" [] c = "S" -> "s" [] c = "T" -> "t"
      [] c = "U" -> "u" [] c = "V" -> "v" [] c = "W" -> "w" [] c = "X" -> "x"
      [] c = "Y" -> "y" [] c = "Z" -> "z"
      [] OTHER -> c

RECURSIVE lower(_)
lower(s) ==
    IF Len(s) = 0 THEN ""
    ELSE LowerChar(SubSeq(s, 1, 1)) \o lower(SubSeq(s, 2, Len(s)))

RECURSIVE SumSeq(_)
SumSeq(s) == IF Len(s) = 0 THEN 0 ELSE Head(s) + SumSeq(Tail(s))

\* Elements of a sequence, as a set.
Range(s) == { s[i] : i \in 1..Len(s) }

(***************************************************************************)
(* risk_service: the risk engine                                           *)
(***************************************************************************)

SENSITIVE_PORTS ==
    [p \in {22, 3389, 3306, 27017, 5432, 6379, 21, 25, 8080, 8443} |->
        CASE p = 22    -> [weight |-> 30, label |-> "SSH - remote access service"]
          [] p = 3389  -> [weight |-> 35, label |-> "RDP - remote desktop service"]
          [] p = 3306  -> [weight |-> 35, label |-> "MySQL - database service"]
          [] p = 27017 -> [weight |-> 35, label |-> "MongoDB - database service"]
          [] p = 5432  -> [weight |-> 30, label |-> "PostgreSQL - database service"]
          [] p = 6379  -> [weight |-> 30, label |-> "Redis - in-memory data store"]
          [] p = 21    -> [weight |-> 25, label |-> "FTP - file transfer service"]
          [] p = 25    -> [weight |-> 15, label |-> "SMTP - mail service"]
          [] p = 8080  -> [weight |-> 10, label |-> "HTTP-Alt - alternate web service"]
          [] p = 8443  -> [weight |-> 8,  label |-> "HTTPS-Alt - alternate secure web service"]]

WEB_PORTS == {80, 443}

HIGH_RISK_PORT_THRESHOLD == 25

ENV_KEYWORDS ==
    << "dev", "staging", "test", "old", "beta", "internal", "admin",
       "backup", "uat", "demo" >>

ADMIN_KEYWORDS == << "admin", "portal", "dashboard", "manage" >>

SENTINEL_FACTOR == "No notable risk factors identified"
LAYER4_FACTOR == "Broad public service exposure footprint"

_classify_severity(score) ==
    IF score >= 70 THEN "Critical"
    ELSE IF score >= 50 THEN "High"
    ELSE IF score >= 30 THEN "Medium"
    ELSE IF score >= 10 THEN "Low"
    ELSE "Informational"

\* Index of the first keyword of the list kws found in s, 0 when none is:
\* the `for kw in KEYWORDS: if kw in s: ...; break` loops.
FirstMatch(kws, s) ==
    IF \E i \in 1..Len(kws) : Contains(kws[i], s)
    THEN CHOOSE i \in 1..Len(kws) :
            /\ Contains(kws[i], s)
            /\ \A j \in 1..(i - 1) : ~Contains(kws[j], s)
    ELSE 0

\* Variant of the density modifier that starts at three ports.
service_density_from3(port_count) ==
    IF port_count >= 4 THEN 15 ELSE IF port_count >= 3 THEN 8 ELSE 0

\* calculate_risk, service density modifier.
service_density(port_count) ==
    IF port_count >= 4 THEN 15 ELSE IF port_count >= 2 THEN 8 ELSE 0

\* calculate_risk, clamp: score = min(score, 100).
clamp_score(raw) == Min(raw, 100)

\* Variant of the admin modifier that gives +5 whenever the admin keyword is
\* also an environment keyword.
admin_modifier_any_env(env_matched, env_keyword_found, kw) ==
    IF env_matched /\ kw \in Range(ENV_KEYWORDS) THEN 5 ELSE 25

\* The score added for the first matching admin keyword kw: +5 when it is
\* the keyword already scored as the environment keyword, +25 otherwise.
admin_modifier(env_matched, env_keyword_found, kw) ==
    IF env_matched /\ kw = env_keyword_found THEN 5 ELSE 25

\* calculate_risk(subdomain, open_ports, ip_frequency): Layers 1-3.
calculate_risk(subdomain, open_ports, ip_frequency) ==
    LET subdomain_lower == lower(subdomain)
        \* Layer 1
        baseline == IF Len(open_ports) > 0 THEN 2 ELSE 0
        sens == SelectSeq(open_ports, LAMBDA p : p \in DOMAIN SENSITIVE_PORTS)
        sens_score == SumSeq([i \in 1..Len(sens) |-> SENSITIVE_PORTS[sens[i]].weight])
        sens_factors ==
            [i \in 1..Len(sens) |->
                "Port " \o ToString(sens[i]) \o " open ("
                        \o SENSITIVE_PORTS[sens[i]].label \o ")"]
        has_high_risk_port ==
            \E i \in 1..Len(sens) :
                SENSITIVE_PORTS[sens[i]].weight >= HIGH_RISK_PORT_THRESHOLD
        web_port_score ==
            Min(3 * Len(SelectSeq(open_ports, LAMBDA p : p \in WEB_PORTS)), 6)
        \* Layer 2
        env_idx == FirstMatch(ENV_KEYWORDS, subdomain_lower)
        env_matched == env_idx # 0
        env_score == IF env_matched THEN 20 ELSE 0
        env_factors ==
            IF env_matched
            THEN << "Sensitive lifecycle environment exposed ('"
                    \o ENV_KEYWORDS[env_idx] \o "' in subdomain)" >>
            ELSE << >>
        admin_idx == FirstMatch(ADMIN_KEYWORDS, subdomain_lower)
        admin_matched == admin_idx # 0
        admin_score ==
            IF ~admin_matched THEN 0
            ELSE admin_modifier(env_matched,
                                IF env_matched THEN ENV_KEYWORDS[env_idx] ELSE None,
                                ADMIN_KEYWORDS[admin_idx])
        admin_factors ==
            IF admin_matched
            THEN << "Administrative interface potentially exposed ('"
                    \o ADMIN_KEYWORDS[admin_idx] \o "' in subdomain)" >>
            ELSE << >>
        port_count == Len(open_ports)
        density_score == service_density(port_count)
        density_factors ==
            IF port_count >= 2
            THEN << "Multiple services exposed on single host ("
                    \o ToString(port_count) \o " ports)" >>
            ELSE << >>
        shared_score == IF ip_frequency > 2 THEN 8 ELSE 0
        shared_factors ==
            IF ip_frequency > 2
            THEN << "Infrastructure consolidation increases blast radius ("
                    \o ToString(ip_frequency) \o " subdomains on this IP)" >>
            ELSE << >>
        \* Layer 3
        compound1 == env_matched /\ has_high_risk_port
        has_non_web_port == \E i \in 1..Len(open_ports) : open_ports[i] \notin WEB_PORTS
        compound2 == admin_matched /\ has_non_web_port
        raw == baseline + sens_score + web_port_score + env_score + admin_score
               + density_score + shared_score
               + (IF compound1 THEN 25 ELSE 0) + (IF compound2 THEN 20 ELSE 0)
        factors ==
            sens_factors \o env_factors \o admin_factors \o density_factors
            \o shared_factors
            \o (IF compound1
                THEN << "High-risk service exposed within sensitive environment" >>
                ELSE << >>)
            \o (IF compound2
                THEN << "Administrative surface combined with service exposure" >>
                ELSE << >>)
        score == clamp_score(raw)
    IN  [ risk_score   |-> score,
          severity     |-> _classify_severity(score),
          risk_factors |-> IF Len(factors) = 0 THEN << SENTINEL_FACTOR >>
                           ELSE factors ]


\* Variant of the Layer-4 pass that adds 5 without clamping to 100.
apply_global_posture_adjustment_unclamped(as) ==
    LET total == Len(as)
        assets_with_ports ==
            Cardinality({ i \in 1..total : Len(as[i].open_ports) > 0 })
    IN  IF total <= 8 THEN as
        ELSE IF 2 * assets_with_ports <= total THEN as
        ELSE [ i \in 1..total |->
                 [ as[i] EXCEPT
                     !.risk_score   = as[i].risk_score + 5,
                     !.severity     = _classify_severity(as[i].risk_score + 5),
                     !.risk_factors = Append(as[i].risk_factors, LAYER4_FACTOR) ] ]

\* Variant of the Layer-4 pass that fires from 8 assets on.
apply_global_posture_adjustment_from8(as) ==
    LET total == Len(as)
        assets_with_ports ==
            Cardinality({ i \in 1..total : Len(as[i].open_ports) > 0 })
    IN  IF total < 8 THEN as
        ELSE IF 2 * assets_with_ports <= total THEN as
        ELSE [ i \in 1..total |->
                 [ as[i] EXCEPT
                     !.risk_score   = Min(as[i].risk_score + 5, 100),
                     !.severity     = _classify_severity(Min(as[i].risk_score + 5, 100)),
                     !.risk_factors = Append(as[i].risk_factors, LAYER4_FACTOR) ] ]

\* apply_global_posture_adjustment(assets): Layer 4.
apply_global_posture_adjustment(as) ==
    LET total == Len(as)
        assets_with_ports ==
            Cardinality({ i \in 1..total : Len(as[i].open_ports) > 0 })
    IN  IF total <= 8 THEN as
        \* assets_with_ports / total <= 0.5
        ELSE IF 2 * assets_with_ports <= total THEN as
        ELSE [ i \in 1..total |->
                 [ as[i] EXCEPT
                     !.risk_score   = Min(as[i].risk_score + 5, 100),
                     !.severity     = _classify_severity(Min(as[i].risk_score + 5, 100)),
                     !.risk_factors = Append(as[i].risk_factors, LAYER4_FACTOR) ] ]

(***************************************************************************)
(* shodan_scan and recon_service: the recon orchestrator                   *)
(***************************************************************************)

\* Longest subdomain list a modelled scan enumerates (MAX_SUBDOMAINS = 15
\* is the cap of the code).
MaxSubs == 9

DomainName == "example.com"

IP_A == "10.0.0.1"
IP_B == "10.0.0.2"

\* Orders in which fetch_subdomains may hand back the enumerated names.
Pools ==
    << << "staging.example.com", "dev.example.com", "test.example.com",
          "www.example.com", "api.example.com", "mail.example.com",
          "shop.example.com", "blog.example.com", "cdn.example.com",
          "example.com", "ns.example.com" >>,
       << "admin.example.com", "db.example.com", "admin-dev.example.com",
          "portal.example.com", "beta.example.com", "www.example.com",
          "api.example.com", "mail.example.com", "example.com",
          "shop.example.com", "cdn.example.com" >> >>

\* Position of the only name whose IPv4 lookup may miss during the scan.
HoleIdx == 2

\* Port lists the exposure database may report for an IP.
PortLists ==
    { << >>, << 80, 443 >>, << 22, 3306 >>, << 80, 443, 22, 3306, 8080 >> }

\* EMPTY_RESULT; os, org and isp (None) are left out.
EMPTY_RESULT == [ ports |-> << >>, services |-> << >> ]

\* Answers of the exposure API to client.host(ip): a host record with its
\* port list and one banner per port (services, each named by its port), or
\* an exception (not found, rate limit, network error).
HostAnswers ==
    { [ raises |-> FALSE, ports |-> p, services |-> p ] : p \in PortLists }
    \cup { [ raises |-> TRUE, ports |-> << >>, services |-> << >> ] }

\* Counter(entry["ip"] for entry in resolved)[ip]
ip_counts(res, ip) == Cardinality({ i \in 1..Len(res) : res[i].ip = ip })

Init ==
    /\ pc = "start"
    /\ subdomains = << >>
    /\ idx = 1
    /\ shodan_key \in BOOLEAN
    /\ ip_cache = << >>
    /\ resolved = << >>
    /\ scored = << >>
    /\ assets = << >>
    /\ adjust_runs = 0
    /\ recon = Unset
    /\ gemini_call = Unset
    /\ enum = Unset
    /\ mongo = Unset
    /\ runs = Unset
    /\ summary_call = Unset
    /\ boot = Unset
    /\ graph_runs = << >>
    /\ base_graph = Unset
    /\ llm = Unset
    /\ simulation = Unset
    /\ report = Unset
    /\ risk_in = Unset
    /\ risk_out = Unset

\* run_recon, lines 23-29: clear the caches, enumerate the subdomains.
StartRecon ==
    /\ pc = "start"
    /\ \E p \in 1..Len(Pools) :
         \E n \in 0..Min(MaxSubs, Len(Pools[p])) :
            subdomains' = SubSeq(Pools[p], 1, n)
    /\ ip_cache' = << >>
    /\ idx' = 1
    /\ pc' = "resolve"
    /\ UNCHANGED << recon, gemini_call, enum, mongo, runs, summary_call, boot, graph_runs, shodan_key, resolved, scored, assets, adjust_runs,
                    base_graph, llm, simulation, report, risk_in, risk_out >>

\* run_recon Phase 1, one iteration: resolve_domain(sub).  The environment
\* answers IP_A for a first stretch of names and IP_B afterwards; the name
\* at HoleIdx may have no IPv4 address.
ResolveNext ==
    /\ pc = "resolve"
    /\ idx <= Len(subdomains)
    /\ LET sub == subdomains[idx]
           seen_subs == { subdomains[j] : j \in 1..(idx - 1) }
       IN  IF sub \in seen_subs
           THEN resolved' = resolved
           ELSE \E ip \in {IP_A, IP_B, None} :
                  /\ ip = IP_A => \A j \in 1..Len(resolved) : resolved[j].ip = IP_A
                  /\ ip = None => idx = HoleIdx
                  /\ resolved' = IF ip = None THEN resolved
                                 ELSE Append(resolved, [subdomain |-> sub, ip |-> ip])
    /\ idx' = idx + 1
    /\ UNCHANGED << recon, gemini_call, enum, mongo, runs, summary_call, boot, graph_runs, pc, subdomains, shodan_key, ip_cache, scored, assets,
                    adjust_runs, base_graph, llm, simulation, report,
                    risk_in, risk_out >>

\* run_recon Phase 2: the IP frequency map is built once all names are resolved.
BuildIpCounts ==
    /\ pc = "resolve"
    /\ idx > Len(subdomains)
    /\ pc' = "scan"
    /\ idx' = 1
    /\ UNCHANGED << recon, gemini_call, enum, mongo, runs, summary_call, boot, graph_runs, subdomains, shodan_key, ip_cache, resolved, scored, assets,
                    adjust_runs, base_graph, llm, simulation, report,
                    risk_in, risk_out >>

\* scan_ip without negative caching: a failed lookup leaves the cache as it was.
scan_ip_no_negative_cache(ip, cache, key, outcome) ==
    IF ~key THEN [ result |-> EMPTY_RESULT, cache |-> cache ]
    ELSE IF ip \in DOMAIN cache THEN [ result |-> cache[ip], cache |-> cache ]
    ELSE IF outcome.raises
         THEN [ result |-> EMPTY_RESULT, cache |-> cache ]
         ELSE [ result |-> [ ports |-> outcome.ports, services |-> outcome.services ],
                cache  |-> [ k \in DOMAIN cache \cup {ip} |->
                               IF k = ip THEN [ ports |-> outcome.ports, services |-> outcome.services ]
                               ELSE cache[k] ] ]

\* scan_ip(ip) with the exposure API answering `outcome` on a cache miss:
\* the pair of the returned result and the new cache.
scan_ip(ip, cache, key, outcome) ==
    IF ~key THEN [ result |-> EMPTY_RESULT, cache |-> cache ]
    ELSE IF ip \in DOMAIN cache THEN [ result |-> cache[ip], cache |-> cache ]
    ELSE IF outcome.raises
         THEN [ result |-> EMPTY_RESULT,
                cache  |-> [ k \in DOMAIN cache \cup {ip} |->
                               IF k = ip THEN EMPTY_RESULT ELSE cache[k] ] ]
         ELSE [ result |-> [ ports |-> outcome.ports, services |-> outcome.services ],
                cache  |-> [ k \in DOMAIN cache \cup {ip} |->
                               IF k = ip THEN [ ports |-> outcome.ports, services |-> outcome.services ]
                               ELSE cache[k] ] ]

\* run_recon Phase 3, one iteration: scan the entry's IP and score it.
ScanNext ==
    /\ pc = "scan"
    /\ idx <= Len(resolved)
    /\ LET ip == resolved[idx].ip
           sub == resolved[idx].subdomain
       IN  \E outcome \in HostAnswers :
             \* the API is only asked on a cache miss with a key configured
             /\ (~shodan_key \/ ip \in DOMAIN ip_cache) => outcome.raises
             /\ LET scan == scan_ip(ip, ip_cache, shodan_key, outcome)
                    open_ports == scan.result.ports
                    risk == calculate_risk(sub, open_ports, ip_counts(resolved, ip))
                    asset == [ subdomain    |-> sub,
                               ip           |-> ip,
                               open_ports   |-> open_ports,
                               risk_score   |-> risk.risk_score,
                               severity     |-> risk.severity,
                               risk_factors |-> risk.risk_factors ]
                IN  /\ ip_cache' = scan.cache
                    /\ scored' = Append(scored, risk)
                    /\ assets' = Append(assets, asset)
    /\ idx' = idx + 1
    /\ UNCHANGED << recon, gemini_call, enum, mongo, runs, summary_call, boot, graph_runs, pc, subdomains, shodan_key, resolved, adjust_runs,
                    base_graph, llm, simulation, report, risk_in, risk_out >>

\* run_recon Phase 4: the Layer-4 pass over the finished asset list; the
\* list is returned and stored as the scan.
Layer4 ==
    /\ pc = "scan"
    /\ idx > Len(resolved)
    /\ assets' = apply_global_posture_adjustment(assets)
    /\ adjust_runs' = adjust_runs + 1
    /\ pc' = "stored"
    /\ UNCHANGED << recon, gemini_call, enum, mongo, runs, summary_call, boot, graph_runs, subdomains, idx, shodan_key, ip_cache, resolved, scored,
                    base_graph, llm, simulation, report, risk_in, risk_out >>


(***************************************************************************)
(* attack_model_service: the deterministic attack-graph builder            *)
(***************************************************************************)

MITRE_TECHNIQUES ==
    [ k \in { "initial_access_web", "initial_access_remote", "initial_access_admin",
              "privesc_db_mysql", "privesc_db_mongo", "privesc_db_postgres",
              "privesc_redis", "privesc_ssh", "privesc_rdp", "privesc_ftp",
              "lateral_shared_infra", "lateral_admin", "lateral_env",
              "exfil_db", "exfil_admin_db" } |->
        CASE k = "initial_access_web" ->
               [technique |-> "Exploit Public-Facing Application", mitre_id |-> "T1190"]
          [] k = "initial_access_remote" ->
               [technique |-> "External Remote Services", mitre_id |-> "T1133"]
          [] k = "initial_access_admin" ->
               [technique |-> "Valid Accounts - Admin Panel Exposure", mitre_id |-> "T1078"]
          [] k = "privesc_db_mysql" ->
               [technique |-> "Exploitation of Database Service (MySQL)", mitre_id |-> "T1068"]
          [] k = "privesc_db_mongo" ->
               [technique |-> "Exploitation of Database Service (MongoDB)", mitre_id |-> "T1068"]
          [] k = "privesc_db_postgres" ->
               [technique |-> "Exploitation of Database Service (PostgreSQL)", mitre_id |-> "T1068"]
          [] k = "privesc_redis" ->
               [technique |-> "Exploitation of In-Memory Data Store (Redis)", mitre_id |-> "T1068"]
          [] k = "privesc_ssh" ->
               [technique |-> "Brute Force - SSH Credential Access", mitre_id |-> "T1110.001"]
          [] k = "privesc_rdp" ->
               [technique |-> "Remote Desktop Protocol Exploitation", mitre_id |-> "T1021.001"]
          [] k = "privesc_ftp" ->
               [technique |-> "Exploitation via FTP Service", mitre_id |-> "T1071.002"]
          [] k = "lateral_shared_infra" ->
               [technique |-> "Lateral Movement via Shared Infrastructure", mitre_id |-> "T1021"]
          [] k = "lateral_admin" ->
               [technique |-> "Internal Administrative Interface Discovery", mitre_id |-> "T1087.002"]
          [] k = "lateral_env" ->
               [technique |-> "Exploitation of Non-Production Environment", mitre_id |-> "T1199"]
          [] k = "exfil_db" ->
               [technique |-> "Data from Information Repositories", mitre_id |-> "T1213"]
          [] k = "exfil_admin_db" ->
               [technique |-> "Exfiltration via Administrative Channel", mitre_id |-> "T1041"] ]

PUBLIC_WEB_PORTS == {80, 443}
DATABASE_PORTS == {3306, 5432, 27017, 6379}

SENSITIVE_PORT_MAP ==
    [ p \in {22, 3389, 3306, 27017, 5432, 6379, 21} |->
        CASE p = 22    -> "privesc_ssh"
          [] p = 3389  -> "privesc_rdp"
          [] p = 3306  -> "privesc_db_mysql"
          [] p = 27017 -> "privesc_db_mongo"
          [] p = 5432  -> "privesc_db_postgres"
          [] p = 6379  -> "privesc_redis"
          [] p = 21    -> "privesc_ftp" ]

\* ADMIN_KEYWORDS and ENV_KEYWORDS of attack_model_service.
GRAPH_ADMIN_KEYWORDS == {"admin", "portal", "dashboard", "manage", "panel", "console"}
GRAPH_ENV_KEYWORDS ==
    {"dev", "staging", "test", "old", "beta", "internal", "backup", "uat", "demo"}

\* risk_threshold default of build_attack_graph.
DEFAULT_RISK_THRESHOLD == 30

_has_database_ports(asset) ==
    SelectSeq(asset.open_ports, LAMBDA p : p \in DATABASE_PORTS)

_has_sensitive_ports(asset) ==
    LET sp == SelectSeq(asset.open_ports, LAMBDA p : p \in DOMAIN SENSITIVE_PORT_MAP)
    IN  [ i \in 1..Len(sp) |-> SENSITIVE_PORT_MAP[sp[i]] ]

_has_non_web_ports(asset) ==
    \E i \in 1..Len(asset.open_ports) : asset.open_ports[i] \notin PUBLIC_WEB_PORTS

_is_admin_surface(subdomain) ==
    LET sub_lower == lower(subdomain)
    IN  \E kw \in GRAPH_ADMIN_KEYWORDS : Contains(kw, sub_lower)

_is_env_surface(subdomain) ==
    LET sub_lower == lower(subdomain)
    IN  \E kw \in GRAPH_ENV_KEYWORDS : Contains(kw, sub_lower)

_has_high_service_density(asset) == Len(asset.open_ports) >= 4

COMPOUND_KEYWORDS ==
    { "high-risk service exposed within", "administrative surface combined",
      "broad public service exposure" }

\* _compute_confidence(asset) without the 0.95 cap.
_compute_confidence_uncapped(asset) ==
    LET compound_count ==
            Cardinality({ i \in 1..Len(asset.risk_factors) :
                LET f == lower(asset.risk_factors[i])
                IN  \E kw \in COMPOUND_KEYWORDS : Contains(kw, f) })
    IN  asset.risk_score + 5 * compound_count

\* _compute_confidence(asset), in hundredths:
\* round(min(risk_score / 100 + 0.05 * compound_count, 0.95), 2).
_compute_confidence(asset) ==
    LET compound_count ==
            Cardinality({ i \in 1..Len(asset.risk_factors) :
                LET f == lower(asset.risk_factors[i])
                IN  \E kw \in COMPOUND_KEYWORDS : Contains(kw, f) })
    IN  Min(asset.risk_score + 5 * compound_count, 95)

\* max(s["confidence_score"] for s in attack_path)
MaxConfidence(path) ==
    CHOOSE c \in { path[i].confidence_score : i \in 1..Len(path) } :
        \A i \in 1..Len(path) : path[i].confidence_score <= c

_classify_overall_risk(attack_path) ==
    IF Len(attack_path) = 0 THEN "Low"
    ELSE LET max_confidence == MaxConfidence(attack_path)
             step_count == Len(attack_path)
         IN  IF max_confidence >= 85 \/ step_count >= 5 THEN "Critical"
             ELSE IF max_confidence >= 70 \/ step_count >= 3 THEN "High"
             ELSE IF max_confidence >= 50 \/ step_count >= 2 THEN "Medium"
             ELSE "Low"

\* The evidence list of a step built without copying the asset's list:
\* extend() reaches the asset.
Evidence_aliased(asset, extra_evidence) ==
    [ evidence     |-> asset.risk_factors \o extra_evidence,
      risk_factors |-> asset.risk_factors \o extra_evidence ]

\* _make_step, lines 218-220: evidence = list(risk_factors), extended by the
\* extra evidence; and the asset's own risk_factors as these lines leave it.
Evidence(asset, extra_evidence) ==
    [ evidence     |-> asset.risk_factors \o extra_evidence,
      risk_factors |-> asset.risk_factors ]

_make_step(step_num, stage, technique_key, asset, extra_evidence) ==
    [ step             |-> step_num,
      stage            |-> stage,
      subdomain        |-> asset.subdomain,
      ip               |-> asset.ip,
      technique        |-> MITRE_TECHNIQUES[technique_key].technique,
      mitre_id         |-> MITRE_TECHNIQUES[technique_key].mitre_id,
      evidence         |-> Evidence(asset, extra_evidence).evidence,
      confidence_score |-> _compute_confidence(asset) ]

\* ", ".join(str(x) for x in s) for a list of integers.
RECURSIVE JoinInts(_)
JoinInts(s) ==
    IF Len(s) = 0 THEN ""
    ELSE IF Len(s) = 1 THEN ToString(s[1])
    ELSE ToString(s[1]) \o ", " \o JoinInts(Tail(s))

\* ", ".join(s) for a list of strings.
RECURSIVE JoinStrings(_)
JoinStrings(s) ==
    IF Len(s) = 0 THEN ""
    ELSE IF Len(s) = 1 THEN s[1]
    ELSE s[1] \o ", " \o JoinStrings(Tail(s))

\* str() of a list of integers, as an f-string prints it.
ListRepr(s) == "[" \o JoinInts(s) \o "]"

\* candidates without the threshold filter.
Candidates_unfiltered(as, risk_threshold) ==
    LET c == as
        rank(i) ==
            Cardinality({ j \in 1..Len(c) : c[j].risk_score > c[i].risk_score })
            + Cardinality({ j \in 1..(i - 1) : c[j].risk_score = c[i].risk_score })
            + 1
    IN  [ k \in 1..Len(c) |-> c[CHOOSE i \in 1..Len(c) : rank(i) = k] ]

\* candidates: the assets at or above the threshold, sorted by score,
\* highest first; list.sort is stable, so equal scores keep their order.
Candidates(as, risk_threshold) ==
    LET c == SelectSeq(as, LAMBDA a : a.risk_score >= risk_threshold)
        rank(i) ==
            Cardinality({ j \in 1..Len(c) : c[j].risk_score > c[i].risk_score })
            + Cardinality({ j \in 1..(i - 1) : c[j].risk_score = c[i].risk_score })
            + 1
    IN  [ k \in 1..Len(c) |-> c[CHOOSE i \in 1..Len(c) : rank(i) = k] ]

\* Index of the first candidate satisfying P, 0 when there is none.
FirstCandidate(cands, P(_)) ==
    IF \E i \in 1..Len(cands) : P(cands[i])
    THEN CHOOSE i \in 1..Len(cands) :
            P(cands[i]) /\ \A j \in 1..(i - 1) : ~P(cands[j])
    ELSE 0

\* A step appended under the step number of the step before it.
AddStep_stale_number(st, stage, technique_key, asset, extra, markUsed) ==
    [ st EXCEPT
        !.step_num    = st.step_num + 1,
        !.attack_path = Append(st.attack_path,
                               _make_step(st.step_num, stage, technique_key,
                                          asset, extra)),
        !.used_assets = IF markUsed THEN st.used_assets \cup {asset.subdomain}
                        ELSE st.used_assets,
        !.assets      = st.assets ]

\* The asset object behind a candidate: candidates holds the dicts of the
\* asset list itself, found here by their subdomain.
AssetObject(st, asset) ==
    LET i == CHOOSE i \in 1..Len(st.assets) : st.assets[i].subdomain = asset.subdomain
    IN  st.assets[i]

\* The asset list after a step was made from `asset`.
AssetsAfterStep(st, asset, extra) ==
    [ i \in 1..Len(st.assets) |->
        IF st.assets[i].subdomain = asset.subdomain
        THEN [ st.assets[i] EXCEPT
                 !.risk_factors = Evidence(st.assets[i], extra).risk_factors ]
        ELSE st.assets[i] ]

\* The builder's running state: attack_path, step_num, entry_point,
\* used_assets, and the asset objects.
AddStep(st, stage, technique_key, asset, extra, markUsed) ==
    [ st EXCEPT
        !.step_num    = st.step_num + 1,
        !.attack_path = Append(st.attack_path,
                               _make_step(st.step_num + 1, stage, technique_key,
                                          AssetObject(st, asset), extra)),
        !.used_assets = IF markUsed THEN st.used_assets \cup {asset.subdomain}
                        ELSE st.used_assets,
        !.assets      = AssetsAfterStep(st, asset, extra) ]

\* Stage 1 qualification without the admin keyword.
QualifiesInitialAccess_no_admin(asset) ==
    LET ports == Range(asset.open_ports)
        is_web == ports \cap PUBLIC_WEB_PORTS # {}
        has_sensitive == ports \ PUBLIC_WEB_PORTS # {}
        has_density == _has_high_service_density(asset)
    IN  is_web \/ has_sensitive \/ has_density

\* Stage 1 qualification: web port, non-web port, admin keyword or >= 4 ports.
QualifiesInitialAccess(asset) ==
    LET ports == Range(asset.open_ports)
        is_web == ports \cap PUBLIC_WEB_PORTS # {}
        is_admin == _is_admin_surface(asset.subdomain)
        has_sensitive == ports \ PUBLIC_WEB_PORTS # {}
        has_density == _has_high_service_density(asset)
    IN  is_web \/ has_sensitive \/ is_admin \/ has_density

\* Stage 1 with has_sensitive read off SENSITIVE_PORT_MAP.
StageInitialAccess_table_ports(cands, st) ==
    LET i == FirstCandidate(cands, QualifiesInitialAccess)
    IN  IF i = 0 THEN st
        ELSE LET asset == cands[i]
                 ports == Range(asset.open_ports)
                 is_web == ports \cap PUBLIC_WEB_PORTS # {}
                 is_admin == _is_admin_surface(asset.subdomain)
                 has_sensitive == ports \cap DOMAIN SENSITIVE_PORT_MAP # {}
                 has_density == _has_high_service_density(asset)
                 tech_key == IF is_admin /\ has_sensitive THEN "initial_access_admin"
                             ELSE IF has_sensitive /\ ~is_web THEN "initial_access_remote"
                             ELSE "initial_access_web"
                 extra == IF has_density
                          THEN << "High service density ("
                                  \o ToString(Cardinality(ports)) \o " ports exposed)" >>
                          ELSE << >>
             IN  [ AddStep(st, "Initial Access", tech_key, asset, extra, TRUE)
                     EXCEPT !.entry_point = asset.subdomain ]

\* Stage 1: Initial Access.
StageInitialAccess(cands, st) ==
    LET i == FirstCandidate(cands, QualifiesInitialAccess)
    IN  IF i = 0 THEN st
        ELSE LET asset == cands[i]
                 ports == Range(asset.open_ports)
                 is_web == ports \cap PUBLIC_WEB_PORTS # {}
                 is_admin == _is_admin_surface(asset.subdomain)
                 has_sensitive == ports \ PUBLIC_WEB_PORTS # {}
                 has_density == _has_high_service_density(asset)
                 tech_key == IF is_admin /\ has_sensitive THEN "initial_access_admin"
                             ELSE IF has_sensitive /\ ~is_web THEN "initial_access_remote"
                             ELSE "initial_access_web"
                 extra == IF has_density
                          THEN << "High service density ("
                                  \o ToString(Cardinality(ports)) \o " ports exposed)" >>
                          ELSE << >>
             IN  [ AddStep(st, "Initial Access", tech_key, asset, extra, TRUE)
                     EXCEPT !.entry_point = asset.subdomain ]

\* The (candidate, technique key) pairs in the order the Stage 2 loops visit them.
RECURSIVE PrivescPairs(_)
PrivescPairs(cands) ==
    IF Len(cands) = 0 THEN << >>
    ELSE LET keys == _has_sensitive_ports(Head(cands))
         IN  [ k \in 1..Len(keys) |-> [ asset |-> Head(cands), key |-> keys[k] ] ]
             \o PrivescPairs(Tail(cands))

\* Stage 2 loop body over the remaining pairs, with seen_privesc_techniques.
RECURSIVE PrivescLoop(_, _, _)
PrivescLoop(pairs, seen, st) ==
    IF Len(pairs) = 0 THEN st
    ELSE LET pr == Head(pairs) IN
         IF pr.key \in seen THEN PrivescLoop(Tail(pairs), seen, st)
         ELSE LET port == CHOOSE p \in DOMAIN SENSITIVE_PORT_MAP :
                              SENSITIVE_PORT_MAP[p] = pr.key
                  extra == << "Port " \o ToString(port)
                              \o " directly accessible from external network" >>
              IN  PrivescLoop(Tail(pairs), seen \cup {pr.key},
                              AddStep(st, "Privilege Escalation", pr.key,
                                      pr.asset, extra, TRUE))

\* Stage 2 looking at the highest-scored candidate only.
StagePrivilegeEscalation_first_only(cands, st) ==
    PrivescLoop(PrivescPairs(SubSeq(cands, 1, 1)), {}, st)

\* Stage 2: Privilege Escalation.
StagePrivilegeEscalation(cands, st) == PrivescLoop(PrivescPairs(cands), {}, st)

\* ip_freq of build_attack_graph: Counter over all assets.
ip_freq(as, ip) == Cardinality({ i \in 1..Len(as) : as[i].ip = ip })

\* Stage 3 with pivots that do not look at used_assets.
StageLateralMovement_reuse(as, cands, st) ==
    LET Shared(a) == ip_freq(as, a.ip) > 2
        ia == FirstCandidate(cands, Shared)
        sa == IF ia = 0 THEN st
              ELSE AddStep(st, "Lateral Movement", "lateral_shared_infra", cands[ia],
                           << ToString(ip_freq(as, cands[ia].ip))
                              \o " subdomains share IP " \o cands[ia].ip
                              \o " - blast radius amplified" >>, TRUE)
        AdminPivot(a) == _is_admin_surface(a.subdomain)
        ib == FirstCandidate(cands, AdminPivot)
        sb == IF ib = 0 THEN sa
              ELSE AddStep(sa, "Lateral Movement", "lateral_admin", cands[ib],
                           << >>, TRUE)
        EnvPivot(a) == /\ _is_env_surface(a.subdomain)
                       /\ ~_is_admin_surface(a.subdomain)
        ic == FirstCandidate(cands, EnvPivot)
    IN  IF ic = 0 THEN sb
        ELSE AddStep(sb, "Lateral Movement", "lateral_env", cands[ic], << >>, TRUE)

\* Stage 3: Lateral Movement (3a shared infrastructure, 3b admin pivot,
\* 3c non-production pivot).
StageLateralMovement(as, cands, st) ==
    LET Shared(a) == ip_freq(as, a.ip) > 2
        ia == FirstCandidate(cands, Shared)
        sa == IF ia = 0 THEN st
              ELSE AddStep(st, "Lateral Movement", "lateral_shared_infra", cands[ia],
                           << ToString(ip_freq(as, cands[ia].ip))
                              \o " subdomains share IP " \o cands[ia].ip
                              \o " - blast radius amplified" >>, TRUE)
        AdminPivot(a) == a.subdomain \notin sa.used_assets
                         /\ _is_admin_surface(a.subdomain)
        ib == FirstCandidate(cands, AdminPivot)
        sb == IF ib = 0 THEN sa
              ELSE AddStep(sa, "Lateral Movement", "lateral_admin", cands[ib],
                           << >>, TRUE)
        EnvPivot(a) == /\ a.subdomain \notin sb.used_assets
                       /\ _is_env_surface(a.subdomain)
                       /\ ~_is_admin_surface(a.subdomain)
        ic == FirstCandidate(cands, EnvPivot)
    IN  IF ic = 0 THEN sb
        ELSE AddStep(sb, "Lateral Movement", "lateral_env", cands[ic], << >>, TRUE)

\* Stage 4: Data Exfiltration.
StageDataExfiltration(cands, st) ==
    LET HasDb(a) == Len(_has_database_ports(a)) > 0
        i == FirstCandidate(cands, HasDb)
    IN  IF i = 0 THEN st
        ELSE LET asset == cands[i]
                 db_ports == _has_database_ports(asset)
             IN  IF _is_admin_surface(asset.subdomain) /\ _has_non_web_ports(asset)
                 THEN AddStep(st, "Data Exfiltration", "exfil_admin_db", asset,
                        << "Database port(s) " \o ListRepr(db_ports)
                           \o " exposed alongside admin interface",
                           "Admin + database combination enables direct data exfiltration" >>,
                        FALSE)
                 ELSE AddStep(st, "Data Exfiltration", "exfil_db", asset,
                        << "Database port(s) " \o ListRepr(db_ports)
                           \o " externally accessible" >>, FALSE)

\* list(dict.fromkeys(s["stage"] for s in attack_path))
StagesHit(path) ==
    LET firsts == SelectSeq([ i \in 1..Len(path) |-> i ],
                    LAMBDA i : \A j \in 1..(i - 1) : path[j].stage # path[i].stage)
    IN  [ k \in 1..Len(firsts) |-> path[firsts[k]].stage ]

NO_PATH_SUMMARY == "No viable attack path identified based on current exposure."

\* One call of build_attack_graph(domain, assets, risk_threshold): the
\* returned graph and the asset list as the call leaves it.
BuildRun(domain, as, risk_threshold) ==
    LET candidates == Candidates(as, risk_threshold)
    IN  IF Len(candidates) = 0
        THEN [ graph  |-> [ entry_point    |-> None,
                            attack_path    |-> << >>,
                            impact_summary |-> NO_PATH_SUMMARY,
                            overall_risk   |-> "Low" ],
               assets |-> as ]
        ELSE
        LET st0 == [ attack_path |-> << >>, step_num |-> 0,
                     entry_point |-> None, used_assets |-> {}, assets |-> as ]
            st1 == StageInitialAccess(candidates, st0)
            st2 == StagePrivilegeEscalation(candidates, st1)
            st3 == StageLateralMovement(as, candidates, st2)
            st4 == StageDataExfiltration(candidates, st3)
            attack_path == st4.attack_path
            entry_point == IF st4.entry_point = None THEN candidates[1].subdomain
                           ELSE st4.entry_point
            stages_hit == StagesHit(attack_path)
            impact_summary ==
                "Analysis of " \o domain \o " identified "
                \o ToString(Len(candidates)) \o " asset(s) with elevated risk (score >= "
                \o ToString(risk_threshold) \o "). Peak risk score: "
                \o ToString(candidates[1].risk_score) \o ". A "
                \o ToString(Len(attack_path)) \o "-step attack chain spanning "
                \o (IF Len(stages_hit) > 0 THEN JoinStrings(stages_hit) ELSE "no")
                \o " stage(s) was constructed."
        IN  [ graph  |-> [ entry_point    |-> entry_point,
                           attack_path    |-> attack_path,
                           impact_summary |-> impact_summary,
                           overall_risk   |-> _classify_overall_risk(attack_path) ],
              assets |-> st4.assets ]

\* build_attack_graph(domain, assets, risk_threshold): the returned graph.
build_attack_graph(domain, as, risk_threshold) ==
    BuildRun(domain, as, risk_threshold).graph

\* POST /simulate, step 1: the deterministic graph of the stored scan.
BuildAttackGraph ==
    /\ pc = "stored"
    /\ \E run \in { BuildRun(DomainName, assets, DEFAULT_RISK_THRESHOLD) } :
           /\ base_graph' = run.graph
           /\ assets' = run.assets
           /\ graph_runs' = Append(graph_runs,
                [ assets_before |-> assets, graph |-> run.graph,
                  assets_after |-> run.assets ])
    /\ pc' = "graph"
    /\ UNCHANGED << recon, gemini_call, enum, mongo, runs, summary_call, boot, subdomains, idx, shodan_key, ip_cache, resolved, scored,
                    adjust_runs, llm, simulation, report, risk_in, risk_out >>

\* A second POST /simulate on the same scan, step 1: the graph is built
\* again from the asset list the first run left.
RebuildAttackGraph ==
    /\ pc = "graph"
    /\ \E run \in { BuildRun(DomainName, assets, DEFAULT_RISK_THRESHOLD) } :
           /\ base_graph' = run.graph
           /\ assets' = run.assets
           /\ graph_runs' = Append(graph_runs,
                [ assets_before |-> assets, graph |-> run.graph,
                  assets_after |-> run.assets ])
    /\ pc' = "regraph"
    /\ UNCHANGED << recon, gemini_call, enum, mongo, runs, summary_call, boot, subdomains, idx, shodan_key, ip_cache, resolved, scored,
                    adjust_runs, llm, simulation, report, risk_in, risk_out >>

(***************************************************************************)
(* ai_service: attack-simulation enhancement                               *)
(*                                                                         *)
(* An LLM reply is described by what _call_groq and json.loads make of it: *)
(* kind "raise" (missing key, timeout, transport error, unexpected         *)
(* response format), "not_json" (json.loads raises), "scalar" and "list"   *)
(* (valid JSON that is no object) or "object".  A member of an object is a *)
(* record [t, v]: t = "absent" when the key is missing, t = "other" when   *)
(* the value has a type the merge does not accept.                         *)
(***************************************************************************)

Absent == [ t |-> "absent", v |-> "" ]
Str(x) == [ t |-> "str", v |-> x ]
Other == [ t |-> "other", v |-> "" ]

NoList == [ t |-> "absent", v |-> << >> ]
List(x) == [ t |-> "list", v |-> x ]
OtherThanList == [ t |-> "other", v |-> << >> ]

\* An entry of the reply's attack_path: a dict with an optional integer
\* "step", an optional "impact_detail" and a "mitre_id" of its own.
AiStep(n, detail, mitre) ==
    [ t |-> "dict", step |-> [ t |-> "int", n |-> n ], impact_detail |-> detail,
      mitre_id |-> mitre ]
AiStepNoNumber(detail) ==
    [ t |-> "dict", step |-> [ t |-> "absent", n |-> 0 ], impact_detail |-> detail,
      mitre_id |-> "" ]
AiStepNotADict ==
    [ t |-> "other", step |-> [ t |-> "absent", n |-> 0 ], impact_detail |-> Absent,
      mitre_id |-> "" ]

Reply(kind, summary, notes, path, risk) ==
    [ kind |-> kind, impact_summary |-> summary, mitigation_notes |-> notes,
      attack_path |-> path, overall_risk |-> risk ]

\* The replies the simulation LLM is made to give.
SimReplies ==
    { Reply("raise", Absent, NoList, NoList, Absent),
      Reply("not_json", Absent, NoList, NoList, Absent),
      Reply("scalar", Absent, NoList, NoList, Absent),
      Reply("list", Absent, NoList, NoList, Absent),
      Reply("object", Absent, NoList, NoList, Absent),
      \* the reply the prompt asks for
      Reply("object", Str("AI summary"),
            List(<< Str("Restrict SSH"), Other, Str("  ") >>),
            List(<< AiStep(1, Str("detail 1"), ""), AiStep(2, Str("detail 2"), "") >>),
            Absent),
      \* altered and extra steps, a new overall_risk
      Reply("object", Str("AI summary"), OtherThanList,
            List(<< AiStep(1, Str("tampered"), "T1499"), AiStep(99, Str("new step"), "T1499"),
                    AiStepNotADict, AiStepNoNumber(Str("lost")), AiStep(2, Other, "T1499") >>),
            Str("Critical")),
      \* a blank impact_summary
      Reply("object", Str("  "), NoList, List(<< AiStep(1, Str("detail 1"), "") >>), Absent),
      \* wrong types and an overall_risk outside the four values
      Reply("object", Other, NoList, OtherThanList, Str("Severe")),
      \* an unhashable overall_risk (a JSON list): the `in` test raises TypeError
      Reply("object", Str("AI summary"), NoList, NoList, Other) }

\* str.strip() for blanks.
RECURSIVE strip(_)
strip(s) ==
    IF Len(s) = 0 THEN s
    ELSE IF SubSeq(s, 1, 1) = " " THEN strip(SubSeq(s, 2, Len(s)))
    ELSE IF SubSeq(s, Len(s), Len(s)) = " " THEN strip(SubSeq(s, 1, Len(s) - 1))
    ELSE s

VALID_RISKS == {"Low", "Medium", "High", "Critical"}

GRAPH_REQUIRED == {"entry_point", "attack_path", "impact_summary", "overall_risk"}

STEP_REQUIRED ==
    {"step", "stage", "subdomain", "ip", "technique", "mitre_id", "evidence",
     "confidence_score"}

\* _validate_attack_simulation_schema(data); confidence in hundredths.
_validate_attack_simulation_schema(data) ==
    /\ GRAPH_REQUIRED \subseteq DOMAIN data
    /\ data.overall_risk \in VALID_RISKS
    /\ strip(data.impact_summary) # ""
    /\ \A i \in 1..Len(data.attack_path) :
         /\ STEP_REQUIRED \subseteq DOMAIN data.attack_path[i]
         /\ data.attack_path[i].confidence_score \in 0..100

\* json.loads(json.dumps(base_graph)): the copy is rebuilt member by member.
DeepCopy(g) ==
    [ k \in DOMAIN g |->
        IF k = "attack_path"
        THEN [ i \in 1..Len(g.attack_path) |->
                 [ f \in DOMAIN g.attack_path[i] |-> g.attack_path[i][f] ] ]
        ELSE g[k] ]

\* Record r with member k set to x, added when missing.
SetKey(r, k, x) == [ f \in DOMAIN r \cup {k} |-> IF f = k THEN x ELSE r[f] ]

\* A merge that also takes the reply entry's mitre_id.
MergeStep_takes_mitre_id(base_step, ai_step) ==
    LET merged == IF ai_step.impact_detail.t = "str"
                  THEN SetKey(base_step, "impact_detail", ai_step.impact_detail.v)
                  ELSE base_step
    IN  IF ai_step.mitre_id # "" THEN [ merged EXCEPT !.mitre_id = ai_step.mitre_id ]
        ELSE merged

\* Merge of one reply entry into the step it names: only impact_detail,
\* and only when it is a string.
MergeStep(base_step, ai_step) ==
    IF ai_step.impact_detail.t = "str"
    THEN SetKey(base_step, "impact_detail", ai_step.impact_detail.v)
    ELSE base_step

\* The loop over parsed["attack_path"]: each entry is merged into the first
\* step of the copy carrying its step number; other entries are skipped.
RECURSIVE MergeSteps(_, _)
MergeSteps(path, ai_steps) ==
    IF Len(ai_steps) = 0 THEN path
    ELSE LET ai_step == Head(ai_steps) IN
         IF ai_step.t # "dict" \/ ai_step.step.t = "absent"
         THEN MergeSteps(path, Tail(ai_steps))
         ELSE LET Match(i) == ai_step.step.t = "int" /\ path[i].step = ai_step.step.n
              IN  IF \E i \in 1..Len(path) : Match(i)
                  THEN LET m == CHOOSE i \in 1..Len(path) :
                                    Match(i) /\ \A j \in 1..(i - 1) : ~Match(j)
                       IN  MergeSteps([ path EXCEPT ![m] = MergeStep(path[m], ai_step) ],
                                      Tail(ai_steps))
                  ELSE MergeSteps(path, Tail(ai_steps))

\* _parse_simulation_enhancement(raw, base_graph): the merged graph, and the
\* base graph object as the call leaves it.
_parse_simulation_enhancement(reply, base) ==
    LET result == DeepCopy(base)
        r1 == IF reply.impact_summary.t = "str"
              THEN [ result EXCEPT !.impact_summary = reply.impact_summary.v ]
              ELSE result
        r2 == IF reply.mitigation_notes.t = "list"
              THEN SetKey(r1, "mitigation_notes",
                     LET kept == SelectSeq(reply.mitigation_notes.v,
                                    LAMBDA n : n.t = "str" /\ strip(n.v) # "")
                     IN  [ i \in 1..Len(kept) |-> kept[i].v ])
              ELSE r1
        r3 == IF reply.attack_path.t = "list"
              THEN [ r2 EXCEPT !.attack_path = MergeSteps(r2.attack_path, reply.attack_path.v) ]
              ELSE r2
        \* an unhashable overall_risk raises TypeError, caught: result as it is
        r4 == IF reply.overall_risk.t = "str" /\ reply.overall_risk.v \in VALID_RISKS
              THEN [ r3 EXCEPT !.overall_risk = reply.overall_risk.v ]
              ELSE r3
    IN  [ result |-> IF reply.kind = "object" THEN r4 ELSE result,
          base   |-> base ]

\* The try block without the re-validation of the merged graph.
SimulationAttempt_unvalidated(base, reply) ==
    IF reply.kind = "raise"
    THEN [ raised |-> TRUE, graph |-> base, enhanced |-> Unset, base |-> base ]
    ELSE LET parsed == _parse_simulation_enhancement(reply, base)
         IN  [ raised   |-> FALSE,
               graph    |-> parsed.result,
               enhanced |-> parsed.result,
               base     |-> parsed.base ]

\* The try block of generate_attack_simulation: _call_groq, the merge and the
\* re-validation.  `raised` tells that an exception left the block.
SimulationAttempt(base, reply) ==
    IF reply.kind = "raise"
    THEN [ raised |-> TRUE, graph |-> base, enhanced |-> Unset, base |-> base ]
    ELSE LET parsed == _parse_simulation_enhancement(reply, base)
         IN  [ raised   |-> FALSE,
               graph    |-> IF _validate_attack_simulation_schema(parsed.result)
                            THEN parsed.result ELSE parsed.base,
               enhanced |-> parsed.result,
               base     |-> parsed.base ]

\* generate_attack_simulation(domain, assets, base_graph, deterministic_only)
\* with the LLM giving `reply`: the returned graph, whether the call raised,
\* whether the LLM was called, the merged graph, and the base graph object
\* after the call.
generate_attack_simulation(base, deterministic_only, reply) ==
    IF deterministic_only \/ Len(base.attack_path) = 0
    THEN [ raised |-> FALSE, graph |-> base, llm_called |-> FALSE,
           enhanced |-> Unset, base |-> base ]
    ELSE LET try == SimulationAttempt(base, reply)
         IN  \* except Exception: the base graph is returned
             [ raised     |-> FALSE,
               graph      |-> IF try.raised THEN base ELSE try.graph,
               llm_called |-> TRUE,
               enhanced   |-> try.enhanced,
               base       |-> try.base ]

\* POST /simulate, step 2.
GenerateAttackSimulation ==
    /\ pc = "graph"
    /\ \E deterministic_only \in BOOLEAN, reply \in SimReplies :
         \* the reply matters only when the LLM is called
         /\ deterministic_only => reply.kind = "raise"
         /\ llm' = [ deterministic_only |-> deterministic_only, reply |-> reply ]
         /\ LET out == generate_attack_simulation(base_graph, deterministic_only, reply)
            IN  \* simulation.base keeps the base graph as it was passed in
                /\ simulation' = [ out EXCEPT !.base = base_graph ]
                /\ base_graph' = out.base
    /\ pc' = "simulated"
    /\ UNCHANGED << recon, gemini_call, enum, mongo, runs, summary_call, boot, graph_runs, subdomains, idx, shodan_key, ip_cache, resolved, scored, assets,
                    adjust_runs, report, risk_in, risk_out >>

(***************************************************************************)
(* run_recon calls over the module-level DNS and exposure caches           *)
(***************************************************************************)

\* Longest list of names a run resolves here.
MaxNames == 2

\* Lists fetch_subdomains may return to a run (distinct names).
NameLists ==
    { SubSeq(l, 1, n) :
        l \in { << "example.com", "www.example.com", "api.example.com" >>,
                << "www.example.com", "example.com", "dev.example.com" >>,
                << "shop.example.org", "example.org", "www.example.org" >> },
        n \in 1..MaxNames }

\* Primary IPv4 answers of the DNS for a name; example.org may not resolve.
DnsAnswers(sub) ==
    IF sub = "example.org" THEN { IP_A, IP_B, None } ELSE { IP_A, IP_B }

\* Answers of the exposure API used by the two-run model.
ScanAnswers ==
    { [ raises |-> FALSE, ports |-> << 80, 443 >>, services |-> << 80, 443 >> ],
      [ raises |-> FALSE, ports |-> << 22, 3306 >>, services |-> << 22, 3306 >> ],
      [ raises |-> TRUE, ports |-> << >>, services |-> << >> ] }

\* resolve_domain(sub) on the module-level _cache with the DNS answering
\* `answer` on a miss: the returned primary IPv4 address and the new cache.
resolve_domain(sub, cache, answer) ==
    IF sub \in DOMAIN cache
    THEN [ ip |-> cache[sub], cache |-> cache ]
    ELSE [ ip |-> answer,
           cache |-> [ k \in DOMAIN cache \cup {sub} |->
                         IF k = sub THEN answer ELSE cache[k] ] ]

\* clear_cache() / clear_dns_cache(): the empty cache.
clear_cache == << >>

IdleRun ==
    [ pc |-> "idle", subs |-> << >>, i |-> 1, resolved |-> << >>,
      api_calls |-> << >>, foreign_reads |-> {}, lost |-> {} ]

InProgress(run) == run.pc \in {"resolve", "scan"}

\* Record in `writer` that run r wrote the keys `cache` has beyond `old`.
Written(writer, old, cache, r) ==
    [ k \in DOMAIN cache |-> IF k \in DOMAIN old THEN writer[k] ELSE r ]

InitRuns ==
    /\ pc = "runs"
    /\ runs \in [ concurrent : BOOLEAN, key : BOOLEAN,
                  dns_cache : {<< >>}, dns_writer : {<< >>},
                  ip_cache : {<< >>}, ip_writer : {<< >>},
                  run : {<< IdleRun, IdleRun >>} ]
    /\ summary_call = Unset
    /\ boot = Unset
    /\ subdomains = << >>
    /\ idx = 1
    /\ shodan_key = FALSE
    /\ ip_cache = << >>
    /\ resolved = << >>
    /\ scored = << >>
    /\ assets = << >>
    /\ adjust_runs = 0
    /\ recon = Unset
    /\ gemini_call = Unset
    /\ enum = Unset
    /\ mongo = Unset
    /\ graph_runs = << >>
    /\ base_graph = Unset
    /\ llm = Unset
    /\ simulation = Unset
    /\ report = Unset
    /\ risk_in = Unset
    /\ risk_out = Unset

RunsUnchanged ==
    UNCHANGED << recon, gemini_call, enum, mongo, pc, summary_call, boot, subdomains, idx, shodan_key, ip_cache,
                 resolved, scored, assets, adjust_runs, graph_runs, base_graph,
                 llm, simulation, report, risk_in, risk_out >>

\* run_recon, lines 23-29, of run r: clear both caches, then enumerate.
\* Requests served one at a time start a run only when no other is in
\* progress; concurrent requests start at any time.
StartRun(r) ==
    LET o == 3 - r
        other == runs.run[o]
        mine(writer) == { k \in DOMAIN writer : writer[k] = o }
    IN  /\ pc = "runs"
        /\ runs.run[r].pc = "idle"
        /\ runs.concurrent \/ ~InProgress(other)
        /\ \E names \in NameLists :
             runs' = [ runs EXCEPT
                 !.ip_cache = clear_cache,
                 !.ip_writer = << >>,
                 !.dns_cache = clear_cache,
                 !.dns_writer = << >>,
                 !.run[r] = [ IdleRun EXCEPT !.pc = "resolve", !.subs = names ],
                 !.run[o].lost =
                     IF InProgress(other)
                     THEN other.lost \cup mine(runs.dns_writer) \cup mine(runs.ip_writer)
                     ELSE other.lost ]
        /\ RunsUnchanged

\* run_recon Phase 1 of run r, one iteration.
ResolveStep(r) ==
    LET run == runs.run[r] IN
    /\ pc = "runs"
    /\ run.pc = "resolve"
    /\ run.i <= Len(run.subs)
    /\ LET sub == run.subs[run.i]
           seen_subs == { run.subs[j] : j \in 1..(run.i - 1) }
       IN  IF sub \in seen_subs
           THEN runs' = [ runs EXCEPT !.run[r].i = run.i + 1 ]
           ELSE \E answer \in DnsAnswers(sub) :
                  LET out == resolve_domain(sub, runs.dns_cache, answer)
                      hit == sub \in DOMAIN runs.dns_cache
                  IN  runs' = [ runs EXCEPT
                        !.dns_cache = out.cache,
                        !.dns_writer = Written(runs.dns_writer, runs.dns_cache, out.cache, r),
                        !.run[r].i = run.i + 1,
                        !.run[r].resolved =
                            IF out.ip = None THEN run.resolved
                            ELSE Append(run.resolved, [subdomain |-> sub, ip |-> out.ip]),
                        !.run[r].foreign_reads =
                            IF hit /\ runs.dns_writer[sub] # r
                            THEN run.foreign_reads \cup {sub}
                            ELSE run.foreign_reads ]
    /\ RunsUnchanged

\* run_recon Phase 2 of run r.
CountStep(r) ==
    LET run == runs.run[r] IN
    /\ pc = "runs"
    /\ run.pc = "resolve"
    /\ run.i > Len(run.subs)
    /\ runs' = [ runs EXCEPT !.run[r].pc = "scan", !.run[r].i = 1 ]
    /\ RunsUnchanged

\* run_recon Phase 3 of run r, one iteration: scan_ip(ip).  client.host is
\* called when a key is configured and the IP is not in the cache.
ScanStep(r) ==
    LET run == runs.run[r] IN
    /\ pc = "runs"
    /\ run.pc = "scan"
    /\ run.i <= Len(run.resolved)
    /\ LET ip == run.resolved[run.i].ip
           hit == ip \in DOMAIN runs.ip_cache
           called == runs.key /\ ~hit
       IN  \E outcome \in ScanAnswers :
             LET scan == scan_ip(ip, runs.ip_cache, runs.key, outcome)
             IN  runs' = [ runs EXCEPT
                   !.ip_cache = scan.cache,
                   !.ip_writer = Written(runs.ip_writer, runs.ip_cache, scan.cache, r),
                   !.run[r].i = run.i + 1,
                   !.run[r].api_calls =
                       IF called THEN Append(run.api_calls, ip) ELSE run.api_calls,
                   !.run[r].foreign_reads =
                       IF runs.key /\ hit /\ runs.ip_writer[ip] # r
                       THEN run.foreign_reads \cup {ip}
                       ELSE run.foreign_reads ]
    /\ RunsUnchanged

\* run_recon of run r returns.
FinishRun(r) ==
    LET run == runs.run[r] IN
    /\ pc = "runs"
    /\ run.pc = "scan"
    /\ run.i > Len(run.resolved)
    /\ runs' = [ runs EXCEPT !.run[r].pc = "done" ]
    /\ RunsUnchanged

NextRuns ==
    \E r \in {1, 2} :
        StartRun(r) \/ ResolveStep(r) \/ CountStep(r) \/ ScanStep(r) \/ FinishRun(r)

SpecRuns == InitRuns /\ [][NextRuns]_vars

(***************************************************************************)
(* routes/scan and db_service: storing and retrieving scans                *)
(***************************************************************************)

\* Most scans stored in the two-route model.
MaxScans == 3

HexDigits ==
    {"0", "1", "2", "3", "4", "5", "6", "7", "8", "9",
     "a", "b", "c", "d", "e", "f", "A", "B", "C", "D", "E", "F"}

\* ObjectId(scan_id) accepts a string of 24 hexadecimal digits and raises
\* on any other string.
IsObjectId(scan_id) ==
    /\ Len(scan_id) = 24
    /\ \A i \in 1..24 : SubSeq(scan_id, i, i) \in HexDigits

\* str(result.inserted_id) of the n-th document inserted.
IdOf(n) == "65a1f0c2b4d3e9a7c8b6d5e" \o ToString(n)

\* Scan ids a client may ask for: ids of stored or never stored documents,
\* and strings that are no ObjectId.
RequestIds ==
    { IdOf(n) : n \in 1..(MaxScans + 1) }
    \cup { "", "abc", "not-an-object-id-at-all!" }

\* Domains a client may have scanned.
ScanDomains == {"example.com", "example.org"}

\* Outcomes of MongoClient(...) followed by server_info().
ConnectOutcomes == {"ok", "client_fails", "server_info_fails"}

\* _get_db with the connection attempt ending in `connect`: [raised, code,
\* db, m].  _client is assigned before server_info() is called, so a failed
\* server_info leaves _client set and _db None.  MongoClient(...) raising is
\* caught by the last except clause, the server selection timeout of
\* server_info() by the first.
_get_db(m, connect) ==
    IF ~m.client_set
    THEN CASE connect = "ok" ->
                [ raised |-> FALSE, code |-> None, db |-> TRUE,
                  m |-> [ m EXCEPT !.client_set = TRUE, !.db_set = TRUE ] ]
           [] connect = "client_fails" ->
                [ raised |-> TRUE, code |-> "DB_UNAVAILABLE", db |-> FALSE, m |-> m ]
           [] OTHER ->
                [ raised |-> TRUE, code |-> "DB_TIMEOUT", db |-> FALSE,
                  m |-> [ m EXCEPT !.client_set = TRUE ] ]
    ELSE [ raised |-> FALSE, code |-> None, db |-> m.db_set, m |-> m ]

\* save_scan: [raised, code, db_none, scan_id, m]; every failure is a
\* DatabaseError with `code`; db_none tells that _get_db returned None.
save_scan(m, domain, connect, write_ok) ==
    LET g == _get_db(m, connect)
    IN  IF g.raised
        THEN [ raised |-> TRUE, code |-> g.code, db_none |-> FALSE,
               scan_id |-> None, m |-> g.m ]
        ELSE IF ~g.db \/ ~write_ok
        THEN [ raised |-> TRUE, code |-> "DB_WRITE_FAILED", db_none |-> ~g.db,
               scan_id |-> None, m |-> g.m ]
        ELSE LET doc == [ scan_id |-> IdOf(Cardinality(g.m.scans) + 1),
                          domain |-> domain ]
             IN  [ raised |-> FALSE, code |-> None, db_none |-> FALSE,
                   scan_id |-> doc.scan_id,
                   m |-> [ g.m EXCEPT !.scans = g.m.scans \cup {doc} ] ]

\* db.scans.find_one({"_id": oid}): the document with that id, or None.
find_one(scans, scan_id) ==
    IF \E d \in scans : d.scan_id = scan_id
    THEN CHOOSE d \in scans : d.scan_id = scan_id
    ELSE [ scan_id |-> None, domain |-> None ]

\* get_scan without the guard on the id format.
get_scan_unguarded(m, scan_id, connect, read_ok) ==
    LET g == _get_db(m, connect)
    IN  IF g.raised
        THEN [ raised |-> TRUE, code |-> g.code, db_none |-> FALSE,
               doc |-> find_one({}, scan_id), m |-> g.m ]
        ELSE IF ~IsObjectId(scan_id) \/ ~g.db \/ ~read_ok
        THEN [ raised |-> TRUE, code |-> "DB_READ_FAILED", db_none |-> ~g.db,
               doc |-> find_one({}, scan_id), m |-> g.m ]
        ELSE [ raised |-> FALSE, code |-> None, db_none |-> FALSE,
               doc |-> find_one(g.m.scans, scan_id), m |-> g.m ]

\* get_scan: [raised, doc, m]; raised is a DatabaseError, doc the document
\* found, or one with scan_id None for a miss.
get_scan(m, scan_id, connect, read_ok) ==
    LET g == _get_db(m, connect)
    IN  IF g.raised
        THEN [ raised |-> TRUE, code |-> g.code, db_none |-> FALSE,
               doc |-> find_one({}, scan_id), m |-> g.m ]
        ELSE IF ~IsObjectId(scan_id)
        THEN [ raised |-> FALSE, code |-> None, db_none |-> ~g.db,
               doc |-> find_one({}, scan_id), m |-> g.m ]
        ELSE IF ~g.db \/ ~read_ok
        THEN [ raised |-> TRUE, code |-> "DB_READ_FAILED", db_none |-> ~g.db,
               doc |-> find_one({}, scan_id), m |-> g.m ]
        ELSE [ raised |-> FALSE, code |-> None, db_none |-> FALSE,
               doc |-> find_one(g.m.scans, scan_id), m |-> g.m ]

\* scan_domain with every save failure reported as 500.
scan_domain_all_500(m, domain, recon_ok, connect, write_ok) ==
    IF ~recon_ok
    THEN [ status |-> 500, scan_id |-> None, save_called |-> FALSE,
           save_raised |-> FALSE, code |-> None, db_none |-> FALSE, m |-> m ]
    ELSE LET saved == save_scan(m, domain, connect, write_ok)
         IN  IF saved.raised
             THEN [ status |-> 500, scan_id |-> None, save_called |-> TRUE,
                    save_raised |-> TRUE, code |-> saved.code,
                    db_none |-> saved.db_none, m |-> saved.m ]
             ELSE [ status |-> 200, scan_id |-> saved.scan_id, save_called |-> TRUE,
                    save_raised |-> FALSE, code |-> None, db_none |-> FALSE,
                    m |-> saved.m ]

\* scan_domain (POST /scan): [status, scan_id, save_called, save_raised,
\* code, db_none, m].
scan_domain(m, domain, recon_ok, connect, write_ok) ==
    IF ~recon_ok
    THEN [ status |-> 500, scan_id |-> None, save_called |-> FALSE,
           save_raised |-> FALSE, code |-> None, db_none |-> FALSE, m |-> m ]
    ELSE LET saved == save_scan(m, domain, connect, write_ok)
         IN  IF saved.raised
             THEN [ status |-> 503, scan_id |-> None, save_called |-> TRUE,
                    save_raised |-> TRUE, code |-> saved.code,
                    db_none |-> saved.db_none, m |-> saved.m ]
             ELSE [ status |-> 200, scan_id |-> saved.scan_id, save_called |-> TRUE,
                    save_raised |-> FALSE, code |-> None, db_none |-> FALSE,
                    m |-> saved.m ]

NoRequest ==
    [ op |-> "none", arg |-> "", status |-> 0, scan_id |-> None, domain |-> None,
      raised |-> FALSE,
      recon_ok |-> FALSE, save_called |-> FALSE, connect_failed |-> FALSE,
      scans_before |-> {}, connect |-> "ok", io_ok |-> TRUE, code |-> None,
      db_none |-> FALSE ]

InitDb ==
    /\ pc = "db"
    /\ mongo = [ client_set |-> FALSE, db_set |-> FALSE, scans |-> {},
                 last |-> NoRequest ]
    /\ runs = Unset
    /\ summary_call = Unset
    /\ boot = Unset
    /\ subdomains = << >>
    /\ idx = 1
    /\ shodan_key = FALSE
    /\ ip_cache = << >>
    /\ resolved = << >>
    /\ scored = << >>
    /\ assets = << >>
    /\ adjust_runs = 0
    /\ recon = Unset
    /\ gemini_call = Unset
    /\ enum = Unset
    /\ graph_runs = << >>
    /\ base_graph = Unset
    /\ llm = Unset
    /\ simulation = Unset
    /\ report = Unset
    /\ risk_in = Unset
    /\ risk_out = Unset

DbUnchanged ==
    UNCHANGED << recon, gemini_call, enum, pc, runs, summary_call, boot, subdomains, idx, shodan_key, ip_cache,
                 resolved, scored, assets, adjust_runs, graph_runs, base_graph,
                 llm, simulation, report, risk_in, risk_out >>

\* POST /scan served to the end.
ScanDomain ==
    /\ pc = "db"
    /\ Cardinality(mongo.scans) < MaxScans
    /\ \E domain \in ScanDomains, recon_ok \in BOOLEAN,
          connect \in ConnectOutcomes, write_ok \in BOOLEAN :
         LET out == scan_domain(mongo, domain, recon_ok, connect, write_ok)
         IN  mongo' = [ out.m EXCEPT !.last =
                 [ op |-> "scan", arg |-> domain, status |-> out.status,
                   scan_id |-> out.scan_id,
                   domain |-> IF out.status = 200 THEN domain ELSE None,
                   raised |-> out.save_raised,
                   recon_ok |-> recon_ok, save_called |-> out.save_called,
                   connect_failed |-> ~mongo.client_set /\ connect # "ok",
                   scans_before |-> mongo.scans,
                   connect |-> connect, io_ok |-> write_ok,
                   code |-> out.code, db_none |-> out.db_none ] ]
    /\ DbUnchanged

\* GET /scan/{scan_id} served to the end: 503 on a DatabaseError, 404 on a
\* miss, 200 with the document.
GetScanResult ==
    /\ pc = "db"
    /\ \E scan_id \in RequestIds, connect \in ConnectOutcomes, read_ok \in BOOLEAN :
         LET out == get_scan(mongo, scan_id, connect, read_ok)
         IN  mongo' = [ out.m EXCEPT !.last =
                 [ op |-> "get_scan", arg |-> scan_id,
                   status |-> IF out.raised THEN 503
                              ELSE IF out.doc.scan_id = None THEN 404 ELSE 200,
                   scan_id |-> out.doc.scan_id, domain |-> out.doc.domain,
                   raised |-> out.raised,
                   recon_ok |-> FALSE, save_called |-> FALSE,
                   connect_failed |-> ~mongo.client_set /\ connect # "ok",
                   scans_before |-> mongo.scans,
                   connect |-> connect, io_ok |-> read_ok,
                   code |-> out.code, db_none |-> out.db_none ] ]
    /\ DbUnchanged

NextDb == ScanDomain \/ GetScanResult

SpecDb == InitDb /\ [][NextDb]_vars

(***************************************************************************)
(* ai_service: the executive summary                                       *)
(***************************************************************************)

\* A JSON value that is neither a string nor a list and is truthy (5);
\* Other stands for a falsy one (null).
OtherTruthy == [ t |-> "other", v |-> "5" ]

\* Python str.upper() on the characters the model's strings use.
UpperChar(c) ==
    CASE c = "a" -> "A" [] c = "b" -> "B" [] c = "c" -> "C" [] c = "d" -> "D"
      [] c = "e" -> "E" [] c = "f" -> "F" [] c = "g" -> "G" [] c = "h" -> "H"
      [] c = "i" -> "I" [] c = "j" -> "J" [] c = "k" -> "K" [] c = "l" -> "L"
      [] c = "m" -> "M" [] c = "n" -> "N" [] c = "o" -> "O" [] c = "p" -> "P"
      [] c = "q" -> "Q" [] c = "r" -> "R" [] c = "s" -> "S" [] c = "t" -> "T"
      [] c = "u" -> "U" [] c = "v" -> "V" [] c = "w" -> "W" [] c = "x" -> "X"
      [] c = "y" -> "Y" [] c = "z" -> "Z"
      [] OTHER -> c

RECURSIVE upper(_)
upper(s) ==
    IF Len(s) = 0 THEN ""
    ELSE UpperChar(SubSeq(s, 1, 1)) \o upper(SubSeq(s, 2, Len(s)))

\* str.isupper(): some cased character, and no lowercase one.
isupper(s) == s = upper(s) /\ s # lower(s)

startswith(s, prefix) ==
    Len(s) >= Len(prefix) /\ SubSeq(s, 1, Len(prefix)) = prefix

endswith(s, suffix) ==
    Len(s) >= Len(suffix) /\ SubSeq(s, Len(s) - Len(suffix) + 1, Len(s)) = suffix

isdigit(c) == c \in {"0", "1", "2", "3", "4", "5", "6", "7", "8", "9"}

\* str.find(sep): the 0-based index of the first occurrence, or -1.
find(s, sep) ==
    LET hits == { i \in 1..(Len(s) - Len(sep) + 1) : SubSeq(s, i, i + Len(sep) - 1) = sep }
    IN  IF hits = {} THEN -1
        ELSE (CHOOSE i \in hits : \A j \in hits : i <= j) - 1

\* "\n".join(lines)
RECURSIVE JoinLines(_)
JoinLines(lines) ==
    IF Len(lines) = 0 THEN ""
    ELSE IF Len(lines) = 1 THEN lines[1]
    ELSE lines[1] \o "\n" \o JoinLines(Tail(lines))

\* json.dumps of the fields of a reply that is a JSON object, on one line.
DumpsString(v) ==
    CASE v.t = "str" -> "\"" \o v.v \o "\""
      [] v.t = "other" -> IF v.v = "" THEN "null" ELSE v.v
      [] OTHER -> ""

DumpsList(v) ==
    CASE v.t = "list" -> "[\"" \o JoinStrings(v.v) \o "\"]"
      [] v.t = "other" -> "\"none\""
      [] OTHER -> ""

DumpsObject(sm, tr, rc) ==
    LET fields ==
            (IF sm.t = "absent" THEN << >>
             ELSE << "\"summary\": " \o DumpsString(sm) >>)
            \o (IF tr.t = "absent" THEN << >>
                ELSE << "\"top_risks\": " \o DumpsList(tr) >>)
            \o (IF rc.t = "absent" THEN << >>
                ELSE << "\"recommendations\": " \o DumpsList(rc) >>)
    IN  "{" \o JoinStrings(fields) \o "}"

\* What the LLM returned: the lines of the text (raw.split("\n")) and what
\* json.loads(_strip_code_fence(raw)) makes of it: a dict ("object"), a
\* value of another JSON type ("other"), or a decode error ("invalid").
JsonObjectReply(sm, tr, rc) ==
    [ lines |-> << DumpsObject(sm, tr, rc) >>, json |-> "object",
      summary |-> sm, top_risks |-> tr, recommendations |-> rc ]

JsonOtherReply(text) ==
    [ lines |-> << text >>, json |-> "other",
      summary |-> Absent, top_risks |-> NoList, recommendations |-> NoList ]

TextReply(lines) ==
    [ lines |-> lines, json |-> "invalid",
      summary |-> Absent, top_risks |-> NoList, recommendations |-> NoList ]

SummaryReplies ==
    { JsonObjectReply(sm, tr, rc) :
        sm \in { Absent, Str("Exposure is low."), Str(""), Other, OtherTruthy },
        tr \in { NoList, List(<< "SSH open" >>), OtherThanList },
        rc \in { NoList, List(<< "Close SSH" >>), OtherThanList } }
    \cup { JsonOtherReply("[1, 2]"), JsonOtherReply("\"fine\""),
           JsonOtherReply("5"), JsonOtherReply("null") }
    \cup { TextReply(<< "EXECUTIVE_SUMMARY:", "Two hosts are exposed.", "",
                        "TOP_RISKS:", "- SSH open", "RECOMMENDATIONS:",
                        "1. Close SSH" >>),
           TextReply(<< "Executive Summary: All fine.", "Top Risks:", "* none",
                        "NOTES:", "ignored", "Recommendations:", "2) Patch",
                        "keep watching" >>),
           TextReply(<< "no headers here" >>),
           TextReply(<< "TOP_RISKS:", "- telnet" >>),
           TextReply(<< "" >>),
           TextReply(<< "  " >>) }

\* _validate_summary_schema
_validate_summary_schema(data) ==
    /\ data.summary.t = "str"
    /\ strip(data.summary.v) # ""
    /\ data.top_risks.t = "list"
    /\ data.recommendations.t = "list"

\* bool(value) of a summary value.
Truthy(v) == v.t # "absent" /\ v.v # ""

\* One line of the structured-text loop of _parse_summary_response.  st is
\* [section, result, raised]; a TypeError or AttributeError on a value of
\* the wrong type is not caught by the function.
SummaryLine(st, line) ==
    LET stripped == strip(line)
        up == upper(stripped)
        res == st.result
    IN  IF st.raised \/ stripped = "" THEN st
        ELSE IF startswith(up, "EXECUTIVE_SUMMARY:") \/ startswith(up, "EXECUTIVE SUMMARY:")
        THEN LET content == strip(SubSeq(stripped, find(stripped, ":") + 2, Len(stripped)))
             IN  [ st EXCEPT !.section = "summary",
                             !.result = IF content # ""
                                        THEN [ res EXCEPT !.summary = Str(content) ]
                                        ELSE res ]
        ELSE IF startswith(up, "TOP_RISKS:") \/ startswith(up, "TOP RISKS:")
        THEN [ st EXCEPT !.section = "risks" ]
        ELSE IF startswith(up, "RECOMMENDATIONS:")
        THEN [ st EXCEPT !.section = "recommendations" ]
        ELSE IF endswith(stripped, ":") /\ isupper(stripped) /\ st.section # None
        THEN [ st EXCEPT !.section = None ]
        ELSE IF st.section = "summary"
        THEN IF res.summary.t # "str"
             THEN [ st EXCEPT !.raised = TRUE ]
             ELSE [ st EXCEPT !.result.summary =
                        Str(IF res.summary.v # ""
                            THEN res.summary.v \o " " \o stripped
                            ELSE stripped) ]
        ELSE IF st.section = "risks"
                /\ (startswith(stripped, "- ") \/ startswith(stripped, "* "))
        THEN IF res.top_risks.t # "list"
             THEN [ st EXCEPT !.raised = TRUE ]
             ELSE [ st EXCEPT !.result.top_risks =
                        List(Append(res.top_risks.v,
                                    strip(SubSeq(stripped, 3, Len(stripped))))) ]
        ELSE IF st.section = "recommendations"
        THEN LET numbered == Len(stripped) >= 3 /\ isdigit(SubSeq(stripped, 1, 1))
                 seps == << ". ", ") ", ": " >>
                 ok(k) == find(stripped, seps[k]) # -1 /\ find(stripped, seps[k]) <= 3
                 text == IF numbered /\ \E k \in 1..3 : ok(k)
                         THEN LET k == CHOOSE k \in 1..3 :
                                          ok(k) /\ \A j \in 1..(k - 1) : ~ok(j)
                              IN  strip(SubSeq(stripped,
                                               find(stripped, seps[k]) + Len(seps[k]) + 1,
                                               Len(stripped)))
                         ELSE stripped
             IN  IF text = "" THEN st
                 ELSE IF res.recommendations.t # "list"
                 THEN [ st EXCEPT !.raised = TRUE ]
                 ELSE [ st EXCEPT !.result.recommendations =
                            List(Append(res.recommendations.v, text)) ]
        ELSE st

RECURSIVE SummaryLines(_, _)
SummaryLines(st, lines) ==
    IF Len(lines) = 0 THEN st
    ELSE SummaryLines(SummaryLine(st, Head(lines)), Tail(lines))

\* The result dict built from a parsed JSON object: parsed.get with the
\* defaults raw, [] and [].
SummaryFromJson(reply) ==
    [ summary |-> IF reply.summary.t = "absent"
                  THEN Str(JoinLines(reply.lines)) ELSE reply.summary,
      top_risks |-> IF reply.top_risks.t = "absent"
                    THEN List(<< >>) ELSE reply.top_risks,
      recommendations |-> IF reply.recommendations.t = "absent"
                          THEN List(<< >>) ELSE reply.recommendations ]

\* _parse_summary_response: returns [raised, result].
_parse_summary_response(reply) ==
    LET empty == [ summary |-> Str(""), top_risks |-> List(<< >>),
                   recommendations |-> List(<< >>) ]
        from_json == SummaryFromJson(reply)
    IN  IF reply.json = "other"
        THEN [ raised |-> TRUE, result |-> empty ]
        ELSE IF reply.json = "object" /\ _validate_summary_schema(from_json)
        THEN [ raised |-> FALSE, result |-> from_json ]
        ELSE LET start == IF reply.json = "object" THEN from_json ELSE empty
                 st == SummaryLines([ section |-> None, result |-> start,
                                      raised |-> FALSE ], reply.lines)
                 res == IF Truthy(st.result.summary) THEN st.result
                        ELSE [ st.result EXCEPT !.summary = Str(JoinLines(reply.lines)) ]
             IN  [ raised |-> st.raised, result |-> res ]

\* generate_summary: _call_groq raises when the key is missing or the
\* request fails, and the exception is passed on.
generate_summary(call_fails, reply) ==
    IF call_fails
    THEN [ raised |-> TRUE,
           result |-> [ summary |-> Str(""), top_risks |-> List(<< >>),
                        recommendations |-> List(<< >>) ] ]
    ELSE _parse_summary_response(reply)

SUMMARY_UNAVAILABLE ==
    [ summary |-> Str("AI analysis temporarily unavailable. Review scan results manually."),
      top_risks |-> List(<< "AI service error - manual review recommended" >>),
      recommendations |-> List(<< "Retry analysis when service recovers" >>) ]

\* get_summary_route for a stored scan.
get_summary_route(call_fails, reply) ==
    LET out == generate_summary(call_fails, reply)
    IN  IF out.raised THEN SUMMARY_UNAVAILABLE ELSE out.result

InitSummary ==
    /\ pc = "summary"
    /\ summary_call \in [ call_fails : BOOLEAN, reply : SummaryReplies,
                     response : {Unset} ]
    /\ boot = Unset
    /\ subdomains = << >>
    /\ idx = 1
    /\ shodan_key = FALSE
    /\ ip_cache = << >>
    /\ resolved = << >>
    /\ scored = << >>
    /\ assets = << >>
    /\ adjust_runs = 0
    /\ recon = Unset
    /\ gemini_call = Unset
    /\ enum = Unset
    /\ mongo = Unset
    /\ runs = Unset
    /\ graph_runs = << >>
    /\ base_graph = Unset
    /\ llm = Unset
    /\ simulation = Unset
    /\ report = Unset
    /\ risk_in = Unset
    /\ risk_out = Unset

GetSummaryRoute ==
    /\ pc = "summary"
    /\ summary_call.response = Unset
    /\ summary_call' = [ summary_call EXCEPT
                      !.response = get_summary_route(summary_call.call_fails, summary_call.reply) ]
    /\ UNCHANGED << recon, gemini_call, enum, mongo, runs, pc, boot, subdomains, idx, shodan_key, ip_cache, resolved, scored,
                    assets, adjust_runs, graph_runs, base_graph, llm, simulation,
                    report, risk_in, risk_out >>

NextSummary == GetSummaryRoute

SpecSummary == InitSummary /\ [][NextSummary]_vars

(***************************************************************************)
(* recon/subdomain: fetch_subdomains                                       *)
(***************************************************************************)

COMMON_SUBS == << "dev", "test", "staging", "admin", "api", "mail", "portal", "beta" >>

MAX_SUBDOMAINS == 15

\* Most raw names taken from the certificate-transparency answer.
MaxCrt == 11

\* Raw names _fetch_from_crtsh may return, already stripped and lowercased:
\* a wildcard, names of the domain, a name of another domain, the bare domain.
CrtPool ==
    << "*.example.com", "www.example.com", "example.net", "shop.example.com",
       "blog.example.com", "cdn.example.com", "vpn.example.com",
       "git.example.com", "ci.example.com", "docs.example.com", "example.com",
       "notexample.com" >>

\* A name that stopped resolving.
DeadName == "vpn.example.com"

\* Source 1: the names of crt_results that are kept.
CrtNames(domain, crt_results) ==
    { crt_results[i] : i \in { j \in 1..Len(crt_results) :
          /\ ~startswith(crt_results[j], "*")
          /\ \/ crt_results[j] = domain
             \/ endswith(crt_results[j], "." \o domain) } }

\* Source 2: _brute_prefix_discovery, the prefixed names that resolve.
_brute_prefix_discovery(domain, found) ==
    { COMMON_SUBS[i] \o "." \o domain : i \in { j \in 1..Len(COMMON_SUBS) : found } }

\* _is_resolvable at validation time.
_is_resolvable(hostname, domain, domain_resolves) ==
    IF hostname = domain THEN domain_resolves ELSE hostname # DeadName

InitEnum ==
    /\ pc = "enum"
    /\ enum \in [ stage : {"called"},
                  crt_results : { SubSeq(CrtPool, 1, n) :
                                    n \in 0..Min(MaxCrt, Len(CrtPool)) },
                  brute_found : BOOLEAN,
                  domain_resolves : BOOLEAN,
                  subdomains : {{}},
                  validated : {{}},
                  len_validated : {0} ]
    /\ mongo = Unset
    /\ runs = Unset
    /\ summary_call = Unset
    /\ boot = Unset
    /\ subdomains = << >>
    /\ idx = 1
    /\ shodan_key = FALSE
    /\ ip_cache = << >>
    /\ resolved = << >>
    /\ scored = << >>
    /\ assets = << >>
    /\ adjust_runs = 0
    /\ recon = Unset
    /\ gemini_call = Unset
    /\ graph_runs = << >>
    /\ base_graph = Unset
    /\ llm = Unset
    /\ simulation = Unset
    /\ report = Unset
    /\ risk_in = Unset
    /\ risk_out = Unset

EnumUnchanged ==
    UNCHANGED << recon, gemini_call, pc, mongo, runs, summary_call, boot, subdomains, idx, shodan_key,
                 ip_cache, resolved, scored, assets, adjust_runs, graph_runs,
                 base_graph, llm, simulation, report, risk_in, risk_out >>

\* fetch_subdomains, lines 84-102: both sources and the bare domain are put
\* in the set `subdomains`.
CollectNames ==
    /\ pc = "enum"
    /\ enum.stage = "called"
    /\ enum' = [ enum EXCEPT
                   !.stage = "validate",
                   !.subdomains = CrtNames(DomainName, enum.crt_results)
                                  \cup _brute_prefix_discovery(DomainName, enum.brute_found)
                                  \cup {DomainName} ]
    /\ EnumUnchanged

\* One iteration of `for sub in subdomains`: a set is iterated in an order
\* the program does not choose; the loop breaks once MAX_SUBDOMAINS names
\* are validated.  enum.subdomains holds the names not yet iterated.
ValidateNext ==
    /\ pc = "enum"
    /\ enum.stage = "validate"
    /\ \E sub \in enum.subdomains :
         LET ok == _is_resolvable(sub, DomainName, enum.domain_resolves)
             len == IF ok THEN enum.len_validated + 1 ELSE enum.len_validated
         IN  enum' = [ enum EXCEPT
                         !.subdomains = enum.subdomains \ {sub},
                         !.validated = IF ok THEN enum.validated \cup {sub}
                                       ELSE enum.validated,
                         !.len_validated = len,
                         !.stage = IF len >= MAX_SUBDOMAINS THEN "returned"
                                   ELSE "validate" ]
    /\ EnumUnchanged

\* The loop ran out of names: return validated.
ReturnValidated ==
    /\ pc = "enum"
    /\ enum.stage = "validate"
    /\ enum.subdomains = {}
    /\ enum' = [ enum EXCEPT !.stage = "returned" ]
    /\ EnumUnchanged

NextEnum == CollectNames \/ ValidateNext \/ ReturnValidated

SpecEnum == InitEnum /\ [][NextEnum]_vars

(***************************************************************************)
(* Service start: the import chain of main.py                              *)
(***************************************************************************)

\* Environment variables core/config.py reads with os.getenv.
ENV_NAMES == {"MONGO_URI", "SHODAN_API_KEY", "GROQ_API_KEY", "GEMINI_API_KEY"}

\* Names core/config.py defines.
CONFIG_NAMES == {"MONGO_URI", "SHODAN_API_KEY", "GROQ_API_KEY"}

\* The modules of the backend in the order their bodies run when main.py is
\* imported, each with the names it imports from core.config.
IMPORTS ==
    << [ module |-> "routes.scan", from_config |-> {} ],
       [ module |-> "services.recon_service", from_config |-> {} ],
       [ module |-> "recon.subdomain", from_config |-> {} ],
       [ module |-> "recon.resolver", from_config |-> {} ],
       [ module |-> "recon.shodan_scan", from_config |-> {"SHODAN_API_KEY"} ],
       [ module |-> "services.risk_service", from_config |-> {} ],
       [ module |-> "services.db_service", from_config |-> {"MONGO_URI"} ],
       [ module |-> "routes.ai", from_config |-> {} ],
       [ module |-> "services.ai_service", from_config |-> {"GROQ_API_KEY"} ],
       [ module |-> "services.attack_model_service", from_config |-> {} ],
       [ module |-> "services.posture_service", from_config |-> {"GEMINI_API_KEY"} ] >>

\* The service is started in some environment.
InitLoad ==
    /\ pc = "boot"
    /\ boot \in [ env : SUBSET ENV_NAMES, next : {1}, status : {"loading"},
                  failed_at : {None} ]
    /\ subdomains = << >>
    /\ idx = 1
    /\ shodan_key = FALSE
    /\ ip_cache = << >>
    /\ resolved = << >>
    /\ scored = << >>
    /\ assets = << >>
    /\ adjust_runs = 0
    /\ recon = Unset
    /\ gemini_call = Unset
    /\ enum = Unset
    /\ mongo = Unset
    /\ runs = Unset
    /\ summary_call = Unset
    /\ graph_runs = << >>
    /\ base_graph = Unset
    /\ llm = Unset
    /\ simulation = Unset
    /\ report = Unset
    /\ risk_in = Unset
    /\ risk_out = Unset

\* The next module body runs: `from core.config import X` raises ImportError
\* when config.py defines no X, and the start fails; after the last module
\* the service is up.
ImportNext ==
    /\ pc = "boot"
    /\ boot.status = "loading"
    /\ LET imp == IMPORTS[boot.next]
       IN  boot' =
             IF ~(imp.from_config \subseteq CONFIG_NAMES)
             THEN [ boot EXCEPT !.status = "failed", !.failed_at = imp.module ]
             ELSE IF boot.next = Len(IMPORTS)
             THEN [ boot EXCEPT !.status = "up" ]
             ELSE [ boot EXCEPT !.next = boot.next + 1 ]
    /\ UNCHANGED << recon, gemini_call, enum, mongo, runs, summary_call, pc, subdomains, idx, shodan_key, ip_cache, resolved, scored, assets,
                    adjust_runs, graph_runs, base_graph, llm, simulation, report,
                    risk_in, risk_out >>

NextLoad == ImportNext

SpecLoad == InitLoad /\ [][NextLoad]_vars

(***************************************************************************)
(* posture_service: posture intelligence                                   *)
(*                                                                         *)
(* posture_score of an LLM reply is in tenths, confidence_score in         *)
(* hundredths, average_ports_per_asset in tenths.                          *)
(***************************************************************************)

POSTURE_ADMIN_KEYWORDS == {"admin", "portal", "dashboard", "manage", "panel", "console"}
POSTURE_ENV_KEYWORDS ==
    {"dev", "staging", "test", "old", "beta", "internal", "backup", "uat", "demo"}

\* SEVERITY_WEIGHTS, in hundredths.
SEVERITY_WEIGHTS ==
    [ Critical |-> 100, High |-> 70, Medium |-> 40, Low |-> 15, Informational |-> 0 ]

\* Number of entries of a sequence satisfying P.
Count(s, P(_)) == Cardinality({ i \in 1..Len(s) : P(s[i]) })

\* num/den rounded to the nearest integer; an exact half goes to the even
\* neighbour (Python round on an exactly represented value).
RoundHalfEven(num, den) ==
    LET q == num \div den
        r == num % den
    IN  IF 2 * r < den THEN q
        ELSE IF 2 * r > den THEN q + 1
        ELSE IF q % 2 = 0 THEN q ELSE q + 1

\* num/den rounded to the nearest integer where the quotient is the result
\* of floating-point arithmetic: at an exact half the accumulated rounding
\* error decides the direction, `tie_up` tells which.
RoundFloat(num, den, tie_up) ==
    LET q == num \div den
        r == num % den
    IN  IF 2 * r < den THEN q
        ELSE IF 2 * r > den THEN q + 1
        ELSE IF tie_up THEN q + 1 ELSE q

\* _preprocess_posture_data(domain, assets): the members the scoring reads.
_preprocess_posture_data(as) ==
    LET total == Len(as)
        ips == { as[i].ip : i \in 1..Len(as) } \ {None}
        assets_per_ip == [ ip \in ips |-> Count(as, LAMBDA a : a.ip = ip) ]
        ports_total == SumSeq([ i \in 1..Len(as) |-> Len(as[i].open_ports) ])
        has_ports == Count(as, LAMBDA a : Len(a.open_ports) > 0)
    IN  IF total = 0
        THEN [ total_assets |-> 0,
               risk_distribution |->
                 [ low_risk_count |-> 0, medium_risk_count |-> 0,
                   high_risk_count |-> 0, critical_risk_count |-> 0 ],
               severity_breakdown |-> [ sev \in DOMAIN SEVERITY_WEIGHTS |-> 0 ],
               infrastructure_concentration |->
                 [ unique_ips |-> 0, shared_ip_count |-> 0, max_assets_per_ip |-> 1 ],
               environment_exposure |-> 0,
               admin_surface_exposure |-> 0,
               service_density |-> [ average_ports_per_asset |-> 0 ],
               data_completeness |-> "minimal" ]
        ELSE [ total_assets |-> total,
               risk_distribution |->
                 [ low_risk_count |-> Count(as, LAMBDA a : a.risk_score < 30),
                   medium_risk_count |->
                     Count(as, LAMBDA a : 30 <= a.risk_score /\ a.risk_score < 60),
                   high_risk_count |->
                     Count(as, LAMBDA a : 60 <= a.risk_score /\ a.risk_score < 80),
                   critical_risk_count |-> Count(as, LAMBDA a : a.risk_score >= 80) ],
               severity_breakdown |->
                 [ sev \in DOMAIN SEVERITY_WEIGHTS |->
                     Count(as, LAMBDA a : a.severity = sev) ],
               infrastructure_concentration |->
                 [ unique_ips |-> Cardinality(ips),
                   shared_ip_count |-> Cardinality({ ip \in ips : assets_per_ip[ip] > 1 }),
                   max_assets_per_ip |->
                     IF ips = {} THEN 0
                     ELSE CHOOSE n \in { assets_per_ip[ip] : ip \in ips } :
                            \A ip \in ips : assets_per_ip[ip] <= n ],
               \* lengths of the two exposure lists, each cut at five entries
               environment_exposure |->
                 Min(5, Count(as, LAMBDA a :
                        LET sub == lower(a.subdomain)
                        IN  \E kw \in POSTURE_ENV_KEYWORDS : Contains(kw, sub))),
               admin_surface_exposure |->
                 Min(5, Count(as, LAMBDA a :
                        LET sub == lower(a.subdomain)
                        IN  \E kw \in POSTURE_ADMIN_KEYWORDS : Contains(kw, sub))),
               service_density |->
                 [ average_ports_per_asset |-> RoundHalfEven(10 * ports_total, total) ],
               data_completeness |->
                 IF 2 * has_ports > total THEN "comprehensive"
                 ELSE IF has_ports > 0 THEN "moderate" ELSE "minimal" ]

\* _calculate_deterministic_posture_score(posture_data).  The three
\* penalties are kept over the common denominator 200 * total.
_calculate_deterministic_posture_score(posture_data, tie_up) ==
    LET total == posture_data.total_assets
        severity == posture_data.severity_breakdown
        concentration == posture_data.infrastructure_concentration
        avg_ports == posture_data.service_density.average_ports_per_asset
        den == 200 * total
        weighted_sum ==
            SumSeq([ i \in 1..5 |->
                LET sev == << "Critical", "High", "Medium", "Low", "Informational" >>[i]
                IN  severity[sev] * SEVERITY_WEIGHTS[sev] ])
        \* (weighted_sum / total) * 60
        severity_penalty == weighted_sum * 120
        \* min(shared * 2 + (max_per_ip - 1) * 1.5, 15)
        concentration_penalty ==
            Min(concentration.shared_ip_count * 4
                  + (concentration.max_assets_per_ip - 1) * 3, 30) * 100 * total
        \* min(avg_ports * 1.5, 10) if avg_ports > 1.5 else 0
        density_penalty ==
            IF avg_ports > 15 THEN Min(avg_ports * 3, 200) * 10 * total ELSE 0
        score == 100 * den - severity_penalty - concentration_penalty - density_penalty
    IN  IF total = 0 THEN 85
        ELSE Max(0, Min(100, RoundFloat(score, den, tie_up)))

\* _determine_maturity(posture_score, posture_data)
_determine_maturity(posture_score, posture_data) ==
    IF posture_data.risk_distribution.critical_risk_count > 0
    THEN IF posture_score >= 30 THEN "Developing" ELSE "Basic"
    ELSE IF posture_score >= 75 THEN "Advanced"
    ELSE IF posture_score >= 55 THEN "Intermediate"
    ELSE IF posture_score >= 30 THEN "Developing"
    ELSE "Basic"

VALID_MATURITY == {"Basic", "Developing", "Intermediate", "Advanced"}
VALID_ATTACKER == {"Opportunistic", "Targeted", "Advanced Persistent", "Automated Scanners"}

\* A reply of the posture LLM as json.loads returns it: kind "not_json"
\* (json.loads raises), "not_dict" (valid JSON, no object) or "object".  An
\* object either carries all eight required keys or lacks some.
PostureReply(kind, has_keys, score, maturity, attacker, improvements, confidence) ==
    [ kind |-> kind, has_keys |-> has_keys, posture_score |-> score,
      maturity_level |-> maturity, likely_attacker_profile |-> attacker,
      dominant_risk_theme |-> "LLM theme",
      strategic_risk_outlook |-> "LLM outlook",
      priority_improvements |-> improvements,
      assessment_basis |-> 3, confidence_score |-> confidence ]

ValidReply(score, maturity, confidence) ==
    PostureReply("object", TRUE, score, maturity, "Targeted", << "Action 1" >>, confidence)

NoReply == PostureReply("not_json", FALSE, 0, "", "", << >>, 0)

PostureReplies ==
    { NoReply,
      PostureReply("not_dict", FALSE, 0, "", "", << >>, 0),
      PostureReply("object", FALSE, 500, "Basic", "Targeted", << "Action 1" >>, 50),
      PostureReply("object", TRUE, 1001, "Basic", "Targeted", << "Action 1" >>, 50),
      PostureReply("object", TRUE, 500, "Expert", "Targeted", << "Action 1" >>, 50),
      PostureReply("object", TRUE, 500, "Basic", "Targeted", << >>, 50),
      ValidReply(0, "Basic", 10),
      ValidReply(445, "Advanced", 90),
      ValidReply(555, "Intermediate", 50),
      ValidReply(1000, "Advanced", 100) }

\* _validate_posture_schema(data)
_validate_posture_schema(data) ==
    /\ data.kind = "object"
    /\ data.has_keys
    /\ 0 <= data.posture_score /\ data.posture_score <= 1000
    /\ data.maturity_level \in VALID_MATURITY
    /\ data.likely_attacker_profile \in VALID_ATTACKER
    /\ Len(data.priority_improvements) >= 1
    /\ data.assessment_basis >= 1
    /\ 0 <= data.confidence_score /\ data.confidence_score <= 100

\* The report members of a validated reply; posture_score still in tenths.
ReportOf(data) ==
    [ posture_score |-> data.posture_score,
      maturity_level |-> data.maturity_level,
      dominant_risk_theme |-> data.dominant_risk_theme,
      likely_attacker_profile |-> data.likely_attacker_profile,
      strategic_risk_outlook |-> data.strategic_risk_outlook,
      priority_improvements |-> data.priority_improvements,
      assessment_basis |-> data.assessment_basis,
      confidence_score |-> data.confidence_score ]

\* _enforce_scoring_rules without the clamp to the band around the anchor.
_enforce_scoring_rules_unclamped(result, posture_data, tie_up) ==
    LET total == posture_data.total_assets
        risk == posture_data.risk_distribution
        completeness == posture_data.data_completeness
        critical == risk.critical_risk_count
        high == risk.high_risk_count
        low_risk == risk.low_risk_count
        s1 == result.posture_score
        s2 == IF critical > 0 THEN Min(s1, 450) ELSE s1
        s3 == IF total > 0 /\ 5 * (high + critical) > 2 * total THEN Min(s2, 550) ELSE s2
        s4 == IF total > 0 /\ low_risk = total THEN Max(s3, 750) ELSE s3
        posture_score == Max(0, Min(100, RoundHalfEven(s4, 10)))
    IN  [ result EXCEPT
            !.posture_score = posture_score,
            !.maturity_level = _determine_maturity(posture_score, posture_data),
            !.confidence_score =
                IF completeness = "comprehensive" /\ total >= 5 THEN Max(@, 75)
                ELSE IF completeness = "minimal" \/ total < 3 THEN Min(@, 55)
                ELSE @ ]

\* _enforce_scoring_rules(result, posture_data); scores in tenths until the
\* final round.
_enforce_scoring_rules(result, posture_data, tie_up) ==
    LET total == posture_data.total_assets
        risk == posture_data.risk_distribution
        completeness == posture_data.data_completeness
        critical == risk.critical_risk_count
        high == risk.high_risk_count
        low_risk == risk.low_risk_count
        det_score == _calculate_deterministic_posture_score(posture_data, tie_up)
        \* clamp within +/-10 of the deterministic anchor
        s1 == Max(10 * (det_score - 10), Min(10 * (det_score + 10), result.posture_score))
        \* rule 1: critical assets, hard ceiling
        s2 == IF critical > 0 THEN Min(s1, 450) ELSE s1
        \* rule 2: (high + critical) / total > 0.4, ceiling
        s3 == IF total > 0 /\ 5 * (high + critical) > 2 * total THEN Min(s2, 550) ELSE s2
        \* rule 3: no significant risk, floor
        s4 == IF total > 0 /\ low_risk = total THEN Max(s3, 750) ELSE s3
        posture_score == Max(0, Min(100, RoundHalfEven(s4, 10)))
    IN  [ result EXCEPT
            !.posture_score = posture_score,
            !.maturity_level = _determine_maturity(posture_score, posture_data),
            !.confidence_score =
                IF completeness = "comprehensive" /\ total >= 5 THEN Max(@, 75)
                ELSE IF completeness = "minimal" \/ total < 3 THEN Min(@, 55)
                ELSE @ ]

MAX_RETRIES == 2

\* _call_gemini(prompt) when the first `failures` attempts fail: whether it
\* raises, and the number of attempts made.
_call_gemini(gemini_key, failures) ==
    IF ~gemini_key THEN [ raised |-> TRUE, attempts |-> 0 ]
    ELSE IF failures > MAX_RETRIES THEN [ raised |-> TRUE, attempts |-> MAX_RETRIES + 1 ]
    ELSE [ raised |-> FALSE, attempts |-> failures + 1 ]

\* _build_deterministic_fallback(domain, posture_data)
_build_deterministic_fallback(domain, posture_data, tie_up) ==
    LET risk == posture_data.risk_distribution
        total == posture_data.total_assets
        critical == risk.critical_risk_count
        high == risk.high_risk_count
        score == _calculate_deterministic_posture_score(posture_data, tie_up)
        env_count == posture_data.environment_exposure
        admin_count == posture_data.admin_surface_exposure
        improvements ==
            (IF admin_count > 0
             THEN << "Restrict administrative interfaces from public access" >>
             ELSE << >>)
            \o (IF env_count > 0
                THEN << "Isolate non-production environments behind VPN or allowlists" >>
                ELSE << >>)
            \o (IF high + critical > 0
                THEN << "Remediate high-severity assets through port restriction and access controls" >>
                ELSE << >>)
        completeness == posture_data.data_completeness
    IN  [ posture_score |-> score,
          maturity_level |-> _determine_maturity(score, posture_data),
          dominant_risk_theme |->
            IF admin_count > 0 /\ high + critical > 0
            THEN "Administrative surface compounded by exposed services"
            ELSE IF admin_count > 0 THEN "Administrative interface exposure"
            ELSE IF env_count > 0 THEN "Non-production environment exposure"
            ELSE IF high + critical > 0 THEN "Elevated service exposure"
            ELSE "Standard web service footprint",
          likely_attacker_profile |->
            IF critical > 0 THEN "Targeted"
            ELSE IF high >= 2 THEN "Opportunistic"
            ELSE "Automated Scanners",
          strategic_risk_outlook |->
            domain \o " presents "
              \o (IF score < 50 THEN "elevated" ELSE IF score < 75 THEN "moderate" ELSE "low")
              \o " organizational risk across " \o ToString(total)
              \o " discovered assets.",
          priority_improvements |->
            IF Len(improvements) = 0
            THEN << "Maintain current posture with periodic reassessment" >>
            ELSE improvements,
          assessment_basis |-> 3,
          confidence_score |->
            IF total >= 5 /\ completeness = "comprehensive" THEN 75
            ELSE IF total >= 3 THEN 55 ELSE 40 ]

\* The try block of generate_posture_intelligence without the schema
\* validation of the reply.
PostureAttempt_unvalidated(posture_data, gemini_key, failures, reply, tie_up) ==
    LET call == _call_gemini(gemini_key, failures)
    IN  IF call.raised \/ reply.kind = "not_json"
        THEN [ raised |-> TRUE, valid |-> FALSE, result |-> Unset,
               attempts |-> call.attempts ]
        ELSE [ raised |-> FALSE, valid |-> TRUE,
               result |-> _enforce_scoring_rules(ReportOf(reply), posture_data, tie_up),
               attempts |-> call.attempts ]

\* The try block of generate_posture_intelligence: _call_gemini, json.loads,
\* the schema validation and the enforcement.  `raised` tells that an
\* exception left the block, `valid` that the reply passed the schema.
PostureAttempt(posture_data, gemini_key, failures, reply, tie_up) ==
    LET call == _call_gemini(gemini_key, failures)
    IN  IF call.raised \/ reply.kind = "not_json"
        THEN [ raised |-> TRUE, valid |-> FALSE, result |-> Unset,
               attempts |-> call.attempts ]
        ELSE IF ~_validate_posture_schema(reply)
        THEN [ raised |-> FALSE, valid |-> FALSE, result |-> Unset,
               attempts |-> call.attempts ]
        ELSE [ raised |-> FALSE, valid |-> TRUE,
               result |-> _enforce_scoring_rules(ReportOf(reply), posture_data, tie_up),
               attempts |-> call.attempts ]

\* generate_posture_intelligence(domain, assets) from its second statement
\* on, posture_data being _preprocess_posture_data(domain, assets): the
\* report, whether the call raised, the path that produced the report, the
\* deterministic anchor, the LLM attempts made and posture_data.
generate_posture_intelligence(domain, posture_data, gemini_key, failures, reply, tie_up) ==
    LET det_score == _calculate_deterministic_posture_score(posture_data, tie_up)
        fallback == _build_deterministic_fallback(domain, posture_data, tie_up)
        try == PostureAttempt(posture_data, gemini_key, failures, reply, tie_up)
    IN  IF posture_data.total_assets = 0
        THEN [ raised |-> FALSE, result |-> fallback, path |-> "fallback",
               anchor |-> det_score, attempts |-> 0, posture_data |-> posture_data ]
        \* both except clauses and the schema failure return the fallback
        ELSE IF try.raised \/ ~try.valid
        THEN [ raised |-> FALSE, result |-> fallback, path |-> "fallback",
               anchor |-> det_score, attempts |-> try.attempts,
               posture_data |-> posture_data ]
        ELSE [ raised |-> FALSE, result |-> try.result, path |-> "enhanced",
               anchor |-> det_score, attempts |-> try.attempts,
               posture_data |-> posture_data ]

\* POST /posture
GeneratePostureIntelligence ==
    /\ pc = "stored"
    /\ LET posture_data == _preprocess_posture_data(assets)
       IN  \E gemini_key \in BOOLEAN, failures \in 0..(MAX_RETRIES + 1),
              reply \in PostureReplies, tie_up \in BOOLEAN :
             \* the reply matters only when an attempt succeeds; retried calls
             \* are followed with one reply
             /\ ~gemini_key => failures = 0
             /\ (~gemini_key \/ failures > MAX_RETRIES) => reply = NoReply
             /\ (gemini_key /\ failures \in 1..MAX_RETRIES) =>
                    reply = ValidReply(445, "Advanced", 90)
             /\ llm' = [ gemini_key |-> gemini_key, failures |-> failures, reply |-> reply ]
             /\ report' = generate_posture_intelligence(DomainName, posture_data, gemini_key,
                                                        failures, reply, tie_up)
    /\ pc' = "postured"
    /\ UNCHANGED << recon, gemini_call, enum, mongo, runs, summary_call, boot, graph_runs, subdomains, idx, shodan_key, ip_cache, resolved, scored, assets,
                    adjust_runs, base_graph, simulation, risk_in, risk_out >>

Next ==
    \/ StartRecon
    \/ ResolveNext
    \/ BuildIpCounts
    \/ ScanNext
    \/ Layer4
    \/ BuildAttackGraph
    \/ RebuildAttackGraph
    \/ GenerateAttackSimulation
    \/ GeneratePostureIntelligence

Spec == Init /\ [][Next]_vars

(***************************************************************************)
(* calculate_risk called on its own                                        *)
(***************************************************************************)

(***************************************************************************)
(* build_attack_graph called on asset lists as run_recon scores them       *)
(***************************************************************************)

\* Longest asset list handed to build_attack_graph here.
MaxGraphAssets == 3

GraphNameLists ==
    { << "admin-dev.example.com", "staging.example.com", "db.example.com",
         "portal.example.com" >>,
      << "api.example.com", "dev.example.com", "admin.example.com",
         "test.example.com" >> }

GraphPortLists ==
    { << >>, << 80, 443 >>, << 8080 >>, << 22, 3306 >>, << 21, 22, 80, 3306 >> }

\* The assets run_recon Phase 3 builds for resolved entries (fewer than nine,
\* so the Layer-4 pass leaves them as they are).
ScoredAssets(entries) ==
    [ i \in 1..Len(entries) |->
        LET risk == calculate_risk(entries[i].subdomain, entries[i].open_ports,
                                   ip_counts(entries, entries[i].ip))
        IN  [ subdomain    |-> entries[i].subdomain,
              ip           |-> entries[i].ip,
              open_ports   |-> entries[i].open_ports,
              risk_score   |-> risk.risk_score,
              severity     |-> risk.severity,
              risk_factors |-> risk.risk_factors ] ]

GraphInputs ==
    UNION { { ScoredAssets([ i \in 1..n |->
                               [ subdomain |-> names[i],
                                 ip |-> IF one_ip \/ i = 1 THEN IP_A ELSE IP_B,
                                 open_ports |-> ports[i] ] ]) :
                names \in GraphNameLists,
                one_ip \in BOOLEAN,
                ports \in [ 1..n -> GraphPortLists ] } :
            n \in 1..Min(MaxGraphAssets, 4) }

InitGraph ==
    /\ pc = "graph_in"
    /\ assets \in GraphInputs
    /\ base_graph = Unset
    /\ subdomains = << >>
    /\ idx = 1
    /\ shodan_key = FALSE
    /\ ip_cache = << >>
    /\ resolved = << >>
    /\ scored = << >>
    /\ adjust_runs = 0
    /\ recon = Unset
    /\ gemini_call = Unset
    /\ enum = Unset
    /\ mongo = Unset
    /\ runs = Unset
    /\ summary_call = Unset
    /\ boot = Unset
    /\ graph_runs = << >>
    /\ llm = Unset
    /\ simulation = Unset
    /\ report = Unset
    /\ risk_in = Unset
    /\ risk_out = Unset

\* build_attack_graph(domain, assets) with the default threshold.
CallBuildAttackGraph ==
    /\ pc = "graph_in"
    /\ base_graph' = build_attack_graph(DomainName, assets, DEFAULT_RISK_THRESHOLD)
    /\ pc' = "graph_out"
    /\ UNCHANGED << recon, gemini_call, enum, mongo, runs, summary_call, boot, graph_runs, subdomains, idx,
                    shodan_key, ip_cache, resolved, scored, assets, adjust_runs, llm,
                    simulation, report, risk_in, risk_out >>

NextGraph == CallBuildAttackGraph

SpecGraph == InitGraph /\ [][NextGraph]_vars

(***************************************************************************)
(* generate_posture_intelligence called on stored scans of low-risk hosts  *)
(***************************************************************************)

\* Longest asset list handed to generate_posture_intelligence here.
MaxPostureAssets == 8

PostureNames ==
    << "www.example.com", "api.example.com", "mail.example.com",
       "shop.example.com", "blog.example.com", "cdn.example.com",
       "ns.example.com", "img.example.com", "docs.example.com" >>

PosturePortLists == { << >>, << 80, 443 >>, << 80, 443, 8000 >>, << 22, 3306 >> }

\* The asset lists run_recon returns for hosts that all answer with the same
\* open ports, on one address or alternating between two.
PostureInputs ==
    { apply_global_posture_adjustment(
        ScoredAssets([ i \in 1..n |->
            [ subdomain  |-> PostureNames[i],
              ip         |-> IF one_ip \/ i % 2 = 1 THEN IP_A ELSE IP_B,
              open_ports |-> ports ] ])) :
        n \in 1..Min(MaxPostureAssets, Len(PostureNames)),
        one_ip \in BOOLEAN, ports \in PosturePortLists }

InitPosture ==
    /\ pc = "posture_in"
    /\ assets \in PostureInputs
    /\ report = Unset
    /\ llm = Unset
    /\ base_graph = Unset
    /\ subdomains = << >>
    /\ idx = 1
    /\ shodan_key = FALSE
    /\ ip_cache = << >>
    /\ resolved = << >>
    /\ scored = << >>
    /\ adjust_runs = 0
    /\ recon = Unset
    /\ gemini_call = Unset
    /\ enum = Unset
    /\ mongo = Unset
    /\ runs = Unset
    /\ summary_call = Unset
    /\ boot = Unset
    /\ graph_runs = << >>
    /\ simulation = Unset
    /\ risk_in = Unset
    /\ risk_out = Unset

\* generate_posture_intelligence(domain, assets)
CallGeneratePostureIntelligence ==
    /\ pc = "posture_in"
    /\ LET posture_data == _preprocess_posture_data(assets)
       IN  \E gemini_key \in BOOLEAN, failures \in 0..(MAX_RETRIES + 1),
              reply \in PostureReplies, tie_up \in BOOLEAN :
             /\ ~gemini_key => failures = 0
             /\ (~gemini_key \/ failures > MAX_RETRIES) => reply = NoReply
             /\ (gemini_key /\ failures \in 1..MAX_RETRIES) =>
                    reply = ValidReply(445, "Advanced", 90)
             /\ llm' = [ gemini_key |-> gemini_key, failures |-> failures, reply |-> reply ]
             /\ report' = generate_posture_intelligence(DomainName, posture_data, gemini_key,
                                                        failures, reply, tie_up)
    /\ pc' = "posture_out"
    /\ UNCHANGED << recon, gemini_call, enum, mongo, runs, summary_call, boot, graph_runs, subdomains, idx,
                    shodan_key, ip_cache, resolved, scored, assets, adjust_runs,
                    base_graph, simulation, risk_in, risk_out >>

NextPosture == CallGeneratePostureIntelligence

SpecPosture == InitPosture /\ [][NextPosture]_vars

(***************************************************************************)
(* _call_gemini followed attempt by attempt                                *)
(***************************************************************************)

\* BACKOFF_BASE = 1.5 seconds, in tenths of a second.
BACKOFF_BASE == 15

\* What generate_content can raise, and a response whose text is None (the
\* len(content) of the next line raises inside the same try block).
GeminiErrors == { "timeout", "quota", "server_error", "text_is_none" }

GeminiTexts == { "{\"posture_score\": 70}", "not json", "" }

\* wait = BACKOFF_BASE * (2 ** attempt), never doubled.
backoff_wait_flat(attempt) == BACKOFF_BASE

\* wait = BACKOFF_BASE * (2 ** attempt)
backoff_wait(attempt) == BACKOFF_BASE * 2 ^ attempt

InitGemini ==
    /\ pc = "gemini"
    /\ \E key \in BOOLEAN :
         gemini_call = [ at |-> "entry", key |-> key, attempt |-> 0, calls |-> 0,
                         errors |-> << >>, sleeps |-> << >>, content |-> None,
                         message |-> None ]
    /\ assets = << >>
    /\ report = Unset
    /\ llm = Unset
    /\ base_graph = Unset
    /\ subdomains = << >>
    /\ idx = 1
    /\ shodan_key = FALSE
    /\ ip_cache = << >>
    /\ resolved = << >>
    /\ scored = << >>
    /\ adjust_runs = 0
    /\ recon = Unset
    /\ enum = Unset
    /\ mongo = Unset
    /\ runs = Unset
    /\ summary_call = Unset
    /\ boot = Unset
    /\ graph_runs = << >>
    /\ simulation = Unset
    /\ risk_in = Unset
    /\ risk_out = Unset

GeminiUnchanged ==
    UNCHANGED << recon, pc, enum, mongo, runs, summary_call, boot, graph_runs, subdomains, idx,
                 shodan_key, ip_cache, resolved, scored, assets, adjust_runs,
                 base_graph, llm, simulation, report, risk_in, risk_out >>

\* Lines 307-310: the key check and the client.
GeminiEnter ==
    /\ pc = "gemini"
    /\ gemini_call.at = "entry"
    /\ gemini_call' =
         IF ~gemini_call.key
         THEN [ gemini_call EXCEPT !.at = "raised",
                                   !.message = "GEMINI_API_KEY is not configured" ]
         ELSE [ gemini_call EXCEPT !.at = "loop" ]
    /\ GeminiUnchanged

\* Lines 312-318: the loop is entered for `attempt` and generate_content is
\* called.
GeminiAttempt ==
    /\ pc = "gemini"
    /\ gemini_call.at = "loop"
    /\ gemini_call' = [ gemini_call EXCEPT !.at = "calling", !.calls = @ + 1 ]
    /\ GeminiUnchanged

\* Lines 319-321: the call answered, its text is returned.
GeminiReturn ==
    /\ pc = "gemini"
    /\ gemini_call.at = "calling"
    /\ \E text \in GeminiTexts :
         gemini_call' = [ gemini_call EXCEPT !.at = "returned", !.content = text ]
    /\ GeminiUnchanged

\* Lines 322-329: the attempt raised; sleep and go round again, or raise.
GeminiFail ==
    /\ pc = "gemini"
    /\ gemini_call.at = "calling"
    /\ \E e \in GeminiErrors :
         gemini_call' =
           IF gemini_call.attempt < MAX_RETRIES
           THEN [ gemini_call EXCEPT
                    !.at = "sleeping",
                    !.errors = Append(@, e),
                    !.sleeps = Append(@, backoff_wait(gemini_call.attempt)) ]
           ELSE [ gemini_call EXCEPT
                    !.at = "raised",
                    !.errors = Append(@, e),
                    !.message = "Gemini API failed after " \o ToString(MAX_RETRIES + 1)
                                \o " attempts: " \o e ]
    /\ GeminiUnchanged

\* time.sleep(wait) is over; the for loop takes the next value of `attempt`.
GeminiWake ==
    /\ pc = "gemini"
    /\ gemini_call.at = "sleeping"
    /\ gemini_call' = [ gemini_call EXCEPT !.at = "loop", !.attempt = @ + 1 ]
    /\ GeminiUnchanged

NextGemini ==
    \/ GeminiEnter
    \/ GeminiAttempt
    \/ GeminiReturn
    \/ GeminiFail
    \/ GeminiWake

SpecGemini == InitGemini /\ [][NextGemini]_vars

\* generate_content answers or raises, and time.sleep ends.
SpecGeminiFair == SpecGemini /\ WF_vars(NextGemini)

(***************************************************************************)
(* run_recon called as a whole                                             *)
(***************************************************************************)

\* Longest list fetch_subdomains hands to run_recon here.
MaxReconSubs == 3

ReconNames ==
    { "www.example.com", "admin.example.com", "dev.example.com", "db.example.com" }

\* fetch_subdomains returns distinct names (a list made from a set).
ReconLists ==
    UNION { { subs \in [1..n -> ReconNames] :
                \A i, j \in 1..n : subs[i] = subs[j] => i = j } :
            n \in 0..Min(MaxReconSubs, Cardinality(ReconNames)) }

\* Primary IPv4 address of each name, None when it has none.
ReconDns ==
    { [ sub \in ReconNames |->
          IF sub = "www.example.com" THEN IP_A
          ELSE IF sub = "admin.example.com" THEN admin
          ELSE IF sub = "dev.example.com" THEN dev
          ELSE IP_B ] : admin \in {IP_A, IP_B}, dev \in {IP_A, None} }

\* What the first scan_ip(ip) of a run meets: a host record (banners for
\* some of the ports only), an exception of client.host, or an exception
\* that leaves scan_ip.
ReconAnswers ==
    { [ raises |-> FALSE, escapes |-> FALSE, ports |-> << 22, 3306 >>, services |-> << 22 >> ],
      [ raises |-> FALSE, escapes |-> FALSE, ports |-> << 80, 443 >>, services |-> << >> ],
      [ raises |-> TRUE, escapes |-> FALSE, ports |-> << >>, services |-> << >> ],
      [ raises |-> FALSE, escapes |-> TRUE, ports |-> << >>, services |-> << >> ] }

\* run_recon Phase 1: the resolved entries, one per distinct name with an
\* IPv4 address, in the order of `subs`.
ResolveAll(subs, dns) ==
    LET kept == SelectSeq([ i \in 1..Len(subs) |-> i ],
                    LAMBDA i : /\ \A j \in 1..(i - 1) : subs[j] # subs[i]
                               /\ dns[subs[i]] # None)
    IN  [ k \in 1..Len(kept) |-> [ subdomain |-> subs[kept[k]], ip |-> dns[subs[kept[k]]] ] ]

\* Lines 58-66 without the except clause: an exception of scan_ip leaves
\* run_recon.
ScanEntry_uncaught(ip, cache, key, outcome) ==
    LET asked == key /\ ip \notin DOMAIN cache
        scan == scan_ip(ip, cache, key, outcome)
    IN  IF asked /\ outcome.escapes
        THEN [ aborted |-> TRUE, open_ports |-> << >>, services |-> << >>,
               cache |-> cache, lookup |-> "escaped" ]
        ELSE [ aborted |-> FALSE, open_ports |-> scan.result.ports,
               services |-> scan.result.services, cache |-> scan.cache,
               lookup |-> IF asked /\ outcome.raises THEN "raised"
                          ELSE IF asked THEN "answered"
                          ELSE IF key THEN "cached" ELSE "no_key" ]

\* Lines 58-66: scan_ip(ip) inside try/except.  `lookup` tells what the
\* call met.
ScanEntry(ip, cache, key, outcome) ==
    LET asked == key /\ ip \notin DOMAIN cache
        scan == scan_ip(ip, cache, key, outcome)
    IN  IF asked /\ outcome.escapes
        THEN [ aborted |-> FALSE, open_ports |-> << >>, services |-> << >>,
               cache |-> cache, lookup |-> "escaped" ]
        ELSE [ aborted |-> FALSE, open_ports |-> scan.result.ports,
               services |-> scan.result.services, cache |-> scan.cache,
               lookup |-> IF asked /\ outcome.raises THEN "raised"
                          ELSE IF asked THEN "answered"
                          ELSE IF key THEN "cached" ELSE "no_key" ]

\* run_recon Phase 3 from entry i on.  st carries the exposure cache, the
\* assets built so far and, per asset, the lookup it met and the
\* ip_frequency handed to calculate_risk.
RECURSIVE ScanAll(_, _, _, _, _)
ScanAll(res, i, key, answers, st) ==
    IF i > Len(res) \/ st.aborted THEN st
    ELSE LET ip == res[i].ip
             sub == res[i].subdomain
             scan == ScanEntry(ip, st.cache, key, answers[ip])
             freq == ip_counts(res, ip)
             risk == calculate_risk(sub, scan.open_ports, freq)
             asset == [ subdomain    |-> sub,
                        ip           |-> ip,
                        open_ports   |-> scan.open_ports,
                        risk_score   |-> risk.risk_score,
                        severity     |-> risk.severity,
                        risk_factors |-> risk.risk_factors ]
         IN  ScanAll(res, i + 1, key, answers,
                [ aborted |-> scan.aborted,
                  cache   |-> scan.cache,
                  assets  |-> IF scan.aborted THEN st.assets
                              ELSE Append(st.assets,
                                     IF Len(scan.services) > 0
                                     THEN asset @@ [ services |-> scan.services ]
                                     ELSE asset),
                  log     |-> IF scan.aborted THEN st.log
                              ELSE Append(st.log, [ lookup |-> scan.lookup,
                                                    ip_frequency |-> freq ]) ])

\* run_recon(domain) on the names `subs`, both caches being cleared first.
run_recon(subs, dns, key, answers) ==
    LET res == ResolveAll(subs, dns)
        st == ScanAll(res, 1, key, answers,
                      [ aborted |-> FALSE, cache |-> << >>, assets |-> << >>,
                        log |-> << >> ])
    IN  [ raised |-> st.aborted,
          assets |-> IF st.aborted THEN << >>
                     ELSE apply_global_posture_adjustment(st.assets),
          log    |-> st.log ]

InitRecon ==
    /\ pc = "recon_in"
    /\ \E subs \in ReconLists, dns \in ReconDns, key \in BOOLEAN,
          answers \in [ {IP_A, IP_B} -> ReconAnswers ] :
         recon = [ subdomains |-> subs, dns |-> dns, key |-> key,
                   answers |-> answers, out |-> Unset ]
    /\ gemini_call = Unset
    /\ assets = << >>
    /\ report = Unset
    /\ llm = Unset
    /\ base_graph = Unset
    /\ subdomains = << >>
    /\ idx = 1
    /\ shodan_key = FALSE
    /\ ip_cache = << >>
    /\ resolved = << >>
    /\ scored = << >>
    /\ adjust_runs = 0
    /\ enum = Unset
    /\ mongo = Unset
    /\ runs = Unset
    /\ summary_call = Unset
    /\ boot = Unset
    /\ graph_runs = << >>
    /\ simulation = Unset
    /\ risk_in = Unset
    /\ risk_out = Unset

\* run_recon(domain)
RunRecon ==
    /\ pc = "recon_in"
    /\ recon' = [ recon EXCEPT !.out = run_recon(recon.subdomains, recon.dns,
                                                 recon.key, recon.answers) ]
    /\ pc' = "recon_out"
    /\ UNCHANGED << gemini_call, enum, mongo, runs, summary_call, boot, graph_runs,
                    subdomains, idx, shodan_key, ip_cache, resolved, scored, assets,
                    adjust_runs, base_graph, llm, simulation, report, risk_in,
                    risk_out >>

NextRecon == RunRecon

SpecRecon == InitRecon /\ [][NextRecon]_vars

\* Largest ip_frequency passed to calculate_risk.
MaxFreq == 3

RiskNames ==
    { "www.example.com", "api.example.com", "admin.example.com",
      "admin-dev.example.com", "portal.example.com", "staging.example.com",
      "dev-dashboard.example.com", "Manage.Example.com" }

RiskPortLists ==
    { << >>, << 80 >>, << 80, 443 >>, << 80, 3306 >>, << 22, 3306 >>,
      << 25 >>, << 80, 443, 8080, 8443 >>, << 21, 22, 3389, 5432, 6379, 27017 >> }

InitRisk ==
    /\ pc = "risk"
    /\ risk_in \in [ subdomain : RiskNames, open_ports : RiskPortLists,
                     ip_frequency : 1..MaxFreq ]
    /\ risk_out = Unset
    /\ subdomains = << >>
    /\ idx = 1
    /\ shodan_key = FALSE
    /\ ip_cache = << >>
    /\ resolved = << >>
    /\ scored = << >>
    /\ assets = << >>
    /\ adjust_runs = 0
    /\ recon = Unset
    /\ gemini_call = Unset
    /\ enum = Unset
    /\ mongo = Unset
    /\ runs = Unset
    /\ summary_call = Unset
    /\ boot = Unset
    /\ graph_runs = << >>
    /\ base_graph = Unset
    /\ llm = Unset
    /\ simulation = Unset
    /\ report = Unset

CallCalculateRisk ==
    /\ pc = "risk"
    /\ risk_out' = calculate_risk(risk_in.subdomain, risk_in.open_ports,
                                  risk_in.ip_frequency)
    /\ pc' = "risk_done"
    /\ UNCHANGED << recon, gemini_call, enum, mongo, runs, summary_call, boot, graph_runs, subdomains, idx, shodan_key, ip_cache, resolved, scored,
                    assets, adjust_runs, base_graph, llm, simulation, report,
                    risk_in >>

NextRisk == CallCalculateRisk

SpecRisk == InitRisk /\ [][NextRisk]_vars

(***************************************************************************)
(* Properties                                                              *)
(***************************************************************************)

\* run_recon has returned its asset list.
RunReconReturned == pc \notin {"start", "resolve", "scan", "risk", "risk_done"}

\* C1: every asset returned by run_recon has 0 <= risk_score <= 100, the
\* severity its score classifies to (>=70 Critical, >=50 High, >=30 Medium,
\* >=10 Low, else Informational) and a non-empty risk_factors list.
C1_AssetInvariant ==
    RunReconReturned =>
        \A i \in 1..Len(assets) :
            LET a == assets[i] IN
            /\ a.risk_score \in 0..100
            /\ (a.risk_score >= 70) => a.severity = "Critical"
            /\ (a.risk_score \in 50..69) => a.severity = "High"
            /\ (a.risk_score \in 30..49) => a.severity = "Medium"
            /\ (a.risk_score \in 10..29) => a.severity = "Low"
            /\ (a.risk_score < 10) => a.severity = "Informational"
            /\ Len(a.risk_factors) > 0

\* A returned list that went through the Layer-4 pass and holds an asset
\* clamped at 100 next to an asset without open ports.
C1_Witness ==
    /\ pc = "stored"
    /\ \E i, j \in 1..Len(assets) :
         /\ assets[i].risk_score = 100
         /\ scored[i].risk_score = 100
         /\ assets[i].risk_factors[Len(assets[i].risk_factors)] = LAYER4_FACTOR
         /\ assets[j].open_ports = << >>
         /\ assets[j].severity \in {"Informational", "Low"}

C2Input ==
    [ subdomain |-> "www.example.com", open_ports |-> << 80, 443 >>,
      ip_frequency |-> 1 ]

\* C2 as stated: calculate_risk("www.example.com", [80, 443], 1) returns
\* risk_score 8 and severity Informational.
C2_Original ==
    (pc = "risk_done" /\ risk_in = C2Input) =>
        /\ risk_out.risk_score = 8
        /\ risk_out.severity = "Informational"

\* C2 amended: calculate_risk("www.example.com", [80, 443], 1) returns
\* risk_score 16 (baseline 2 + web cap 6 + service density 8 for two open
\* ports), severity Low, and the single factor recording the two ports.
C2_Amended ==
    (pc = "risk_done" /\ risk_in = C2Input) =>
        /\ risk_out.risk_score = 16
        /\ risk_out.severity = "Low"
        /\ risk_out.risk_factors =
             << "Multiple services exposed on single host (2 ports)" >>

C2_Witness == pc = "risk_done" /\ risk_in = C2Input

\* The Layer-4 condition of a finished asset list: more than 8 assets and
\* more than half of them with a non-empty open_ports.
BroadExposure ==
    /\ Len(scored) > 8
    /\ 2 * Cardinality({ i \in 1..Len(assets) : assets[i].open_ports # << >> })
         > Len(assets)

\* C3: the Layer-4 adjustment runs exactly once per run_recon and only after
\* every asset has its Layer 1-3 score; with more than 8 assets and more
\* than half of them exposing ports every asset ends at
\* min(layer123_score + 5, 100) with the severity of that score and exactly
\* one "Broad public service exposure footprint" factor appended; otherwise
\* score, severity and factors are the Layer 1-3 ones.
C3_Layer4Once ==
    /\ adjust_runs <= 1
    /\ Len(assets) = Len(scored)
    /\ pc \in {"start", "resolve", "scan"} =>
         /\ adjust_runs = 0
         /\ \A i \in 1..Len(assets) :
              /\ assets[i].risk_score = scored[i].risk_score
              /\ assets[i].risk_factors = scored[i].risk_factors
    /\ RunReconReturned =>
         /\ adjust_runs = 1
         /\ Len(assets) = Len(resolved)
         /\ \A i \in 1..Len(assets) :
              IF BroadExposure
              THEN /\ assets[i].risk_score =
                        Min(scored[i].risk_score + 5, 100)
                   /\ assets[i].severity =
                        _classify_severity(assets[i].risk_score)
                   /\ assets[i].risk_factors =
                        Append(scored[i].risk_factors, LAYER4_FACTOR)
                   /\ Cardinality({ k \in 1..Len(assets[i].risk_factors) :
                                      assets[i].risk_factors[k] = LAYER4_FACTOR }) = 1
              ELSE /\ assets[i].risk_score = scored[i].risk_score
                   /\ assets[i].severity = scored[i].severity
                   /\ assets[i].risk_factors = scored[i].risk_factors

\* A finished scan of 9 assets whose adjustment moved an asset from 28 to
\* 33 (Low to Medium) and kept a clamped asset at 100.
C3_Witness ==
    /\ pc = "stored"
    /\ BroadExposure
    /\ \E i \in 1..Len(assets) :
         scored[i].severity = "Low" /\ assets[i].severity = "Medium"

\* An asset reaches the default threshold of the attack graph.
HasCandidate ==
    \E i \in 1..Len(assets) : assets[i].risk_score >= DEFAULT_RISK_THRESHOLD

\* C4: build_attack_graph on an asset list whose assets all score below the
\* threshold (default 30), the empty list included, returns entry_point
\* null, an empty attack_path and overall_risk "Low".
C4_NoCandidates ==
    (pc = "graph" /\ ~HasCandidate) =>
        /\ base_graph.entry_point = None
        /\ base_graph.attack_path = << >>
        /\ base_graph.overall_risk = "Low"

\* A graph built from several assets, the highest of them between 20 and 29.
C4_Witness ==
    /\ pc = "graph"
    /\ Len(assets) >= 2
    /\ ~HasCandidate
    /\ \E i \in 1..Len(assets) : assets[i].risk_score >= 20
    /\ base_graph.attack_path = << >>

StageRank ==
    [ s \in {"Initial Access", "Privilege Escalation", "Lateral Movement",
             "Data Exfiltration"} |->
        CASE s = "Initial Access" -> 1
          [] s = "Privilege Escalation" -> 2
          [] s = "Lateral Movement" -> 3
          [] s = "Data Exfiltration" -> 4 ]

\* C5: the attack_path of every built graph carries the step numbers
\* 1, 2, ..., n in list order, and no step's stage precedes the stage of an
\* earlier step in the order Initial Access, Privilege Escalation, Lateral
\* Movement, Data Exfiltration.
C5_StageMonotonic ==
    pc = "graph" =>
        LET path == base_graph.attack_path
        IN  /\ \A i \in 1..Len(path) :
                 path[i].step = i /\ path[i].stage \in DOMAIN StageRank
            /\ \A i, j \in 1..Len(path) :
                 i < j => StageRank[path[i].stage] <= StageRank[path[j].stage]

\* A path of at least five steps that passes through all four stages.
C5_Witness ==
    /\ pc = "graph"
    /\ Len(base_graph.attack_path) >= 5
    /\ { base_graph.attack_path[i].stage : i \in 1..Len(base_graph.attack_path) }
         = DOMAIN StageRank

\* Positions of the Initial Access steps of the built path.
InitialAccessSteps ==
    { i \in 1..Len(base_graph.attack_path) :
        base_graph.attack_path[i].stage = "Initial Access" }

\* Exactly one Initial Access step, it is step 1, and it names the entry point.
OneInitialAccessStep ==
    /\ InitialAccessSteps = {1}
    /\ base_graph.attack_path[1].step = 1
    /\ base_graph.entry_point = base_graph.attack_path[1].subdomain

\* C6 as stated: whenever some asset reaches the threshold the path holds
\* exactly one Initial Access step, that step is step 1, and entry_point is
\* its subdomain.
C6_Original ==
    (pc = "graph" /\ HasCandidate) => OneInitialAccessStep

\* Some asset at or above the threshold has an open port or an admin
\* keyword in its subdomain.
ExposedCandidate ==
    \E i \in 1..Len(assets) :
        /\ assets[i].risk_score >= DEFAULT_RISK_THRESHOLD
        /\ \/ assets[i].open_ports # << >>
           \/ \E kw \in {"admin", "portal", "dashboard", "manage", "panel", "console"} :
                Contains(kw, lower(assets[i].subdomain))

\* C6 amended: when some asset at or above the threshold has an open port
\* or an admin keyword in its subdomain, the path holds exactly one Initial
\* Access step, it is step 1, and entry_point is its subdomain; when assets
\* reach the threshold but none of them has a port or an admin keyword, the
\* path holds no Initial Access step and entry_point is the subdomain of
\* the highest-scoring asset, the first such in list order.
C6_Amended ==
    pc = "graph" =>
        /\ ExposedCandidate => OneInitialAccessStep
        /\ (HasCandidate /\ ~ExposedCandidate) =>
             /\ InitialAccessSteps = {}
             /\ \E i \in 1..Len(assets) :
                  /\ base_graph.entry_point = assets[i].subdomain
                  /\ assets[i].risk_score >= DEFAULT_RISK_THRESHOLD
                  /\ \A j \in 1..Len(assets) : assets[j].risk_score <= assets[i].risk_score
                  /\ \A j \in 1..(i - 1) : assets[j].risk_score < assets[i].risk_score

\* A path with an Initial Access step for a candidate that is not the
\* first of the asset list, followed by further steps.
C6_Witness ==
    /\ pc = "graph"
    /\ ExposedCandidate
    /\ Len(base_graph.attack_path) >= 3
    /\ base_graph.attack_path[1].stage = "Initial Access"
    /\ base_graph.entry_point # assets[1].subdomain

\* C7: for every base graph and every LLM output, the graph returned by
\* _parse_simulation_enhancement has the entry_point of the base graph, the
\* same number of steps in the same order, and in every step the step,
\* stage, subdomain, ip, technique, mitre_id, evidence and confidence_score
\* of the base step; the only key a step may gain is impact_detail; the
\* base graph object is left as it was.
C7_MergePreservesSteps ==
    (pc = "simulated" /\ simulation.enhanced # Unset) =>
        LET merged == simulation.enhanced
            base == simulation.base
        IN  /\ merged.entry_point = base.entry_point
            /\ Len(merged.attack_path) = Len(base.attack_path)
            /\ \A i \in 1..Len(base.attack_path) :
                 /\ \A k \in STEP_REQUIRED :
                      merged.attack_path[i][k] = base.attack_path[i][k]
                 /\ DOMAIN merged.attack_path[i]
                      \subseteq DOMAIN base.attack_path[i] \cup {"impact_detail"}
            /\ base_graph = base

\* A merge of the reply with an altered step 1, an extra step 99 and a new
\* overall_risk into a path of at least two steps: step 1 gained its
\* impact_detail.
C7_Witness ==
    /\ pc = "simulated"
    /\ simulation.enhanced # Unset
    /\ llm.reply.overall_risk = Str("Critical")
    /\ Len(simulation.base.attack_path) >= 2
    /\ "impact_detail" \in DOMAIN simulation.enhanced.attack_path[1]
    /\ simulation.enhanced.attack_path[1].impact_detail = "tampered"

\* C8: generate_attack_simulation never raises; it returns the base graph
\* unchanged or a merged graph that passes
\* _validate_attack_simulation_schema, never a graph that fails the schema;
\* with deterministic_only it returns the base graph without calling the LLM.
C8_SimulationSafe ==
    pc = "simulated" =>
        /\ ~simulation.raised
        /\ \/ simulation.graph = simulation.base
           \/ simulation.graph = simulation.enhanced
        /\ _validate_attack_simulation_schema(simulation.graph)
        /\ llm.deterministic_only =>
             simulation.graph = simulation.base /\ ~simulation.llm_called

\* The LLM was called, the merged graph fails the schema, and the base graph
\* came back.
C8_Witness ==
    /\ pc = "simulated"
    /\ simulation.llm_called
    /\ simulation.enhanced # Unset
    /\ ~_validate_attack_simulation_schema(simulation.enhanced)
    /\ simulation.graph = simulation.base

\* C9 as stated: when some asset has risk_score >= 80 the report of
\* generate_posture_intelligence, on the enhanced path and on the fallback
\* path alike, has posture_score <= 45 and maturity_level Basic or
\* Developing.
C9_Original ==
    (pc = "postured" /\ \E i \in 1..Len(assets) : assets[i].risk_score >= 80) =>
        /\ report.result.posture_score <= 45
        /\ report.result.maturity_level \in {"Basic", "Developing"}

NoCeiling ==
    /\ \A i \in 1..Len(assets) : assets[i].risk_score < 80
    /\ 5 * Cardinality({ i \in 1..Len(assets) : assets[i].risk_score >= 60 })
         <= 2 * Len(assets)

PostureLlmFailed ==
    \/ ~llm.gemini_key
    \/ llm.failures > MAX_RETRIES
    \/ llm.reply.kind = "not_json"
    \/ ~_validate_posture_schema(llm.reply)

\* C11: whenever the posture LLM call fails (missing key, all attempts
\* raise, output not JSON, output fails the schema), and for an empty asset
\* list, generate_posture_intelligence does not raise and returns the
\* deterministic fallback, whose posture_score is the deterministic anchor
\* computed from the preprocessing payload.
C11_FallbackOnFailure ==
    (pc = "postured" /\ (PostureLlmFailed \/ assets = << >>)) =>
        /\ ~report.raised
        /\ report.path = "fallback"
        /\ \E tie_up \in BOOLEAN :
             /\ report.result =
                  _build_deterministic_fallback(DomainName, report.posture_data, tie_up)
             /\ report.result.posture_score =
                  _calculate_deterministic_posture_score(report.posture_data, tie_up)

\* A reply that is JSON with all keys but a posture_score above 100, for a
\* scan with a critical asset: the fallback came back with the anchor.
C11_Witness ==
    /\ pc = "postured"
    /\ llm.gemini_key
    /\ llm.reply.kind = "object" /\ llm.reply.has_keys
    /\ llm.reply.posture_score = 1001
    /\ \E i \in 1..Len(assets) : assets[i].risk_score >= 80
    /\ report.path = "fallback"
    /\ report.result.posture_score = report.anchor

\* C12: build_attack_graph is idempotent and leaves its input untouched:
\* two runs on the same scan return equal graphs, and after every run the
\* asset list has the order it had and every asset its risk_score,
\* severity, open_ports and risk_factors.
C12_BuildIdempotent ==
    /\ \A r \in 1..Len(graph_runs) :
         LET before == graph_runs[r].assets_before
             after == graph_runs[r].assets_after
         IN  /\ Len(after) = Len(before)
             /\ \A i \in 1..Len(before) :
                  /\ after[i].subdomain = before[i].subdomain
                  /\ after[i].risk_score = before[i].risk_score
                  /\ after[i].severity = before[i].severity
                  /\ after[i].open_ports = before[i].open_ports
                  /\ after[i].risk_factors = before[i].risk_factors
    /\ \A r, q \in 1..Len(graph_runs) : graph_runs[r].graph = graph_runs[q].graph

\* Two runs on a scan whose graph has a step with extra evidence and an
\* asset used by two steps.
C12_Witness ==
    /\ pc = "regraph"
    /\ Len(graph_runs) = 2
    /\ \E i, j \in 1..Len(base_graph.attack_path) :
         /\ i < j
         /\ base_graph.attack_path[i].subdomain = base_graph.attack_path[j].subdomain
         /\ \E k \in 1..Len(assets) :
              /\ assets[k].subdomain = base_graph.attack_path[i].subdomain
              /\ Len(base_graph.attack_path[j].evidence) > Len(assets[k].risk_factors)

\* Number of the risk_factors of an asset that contain, in lower case, one
\* of the three compound phrases.
CompoundFactors(asset) ==
    Cardinality({ i \in 1..Len(asset.risk_factors) :
        \E phrase \in { "high-risk service exposed within",
                        "administrative surface combined",
                        "broad public service exposure" } :
            Contains(phrase, lower(asset.risk_factors[i])) })

\* C13: every step of a built graph has confidence_score, in hundredths,
\* min(risk_score + 5 * k, 95) for the asset it was made from, k being the
\* number of that asset's risk_factors with a compound phrase; hence
\* 0 <= confidence_score <= 95.
C13_StepConfidence ==
    pc = "graph" =>
        \A i \in 1..Len(base_graph.attack_path) :
            LET step == base_graph.attack_path[i]
            IN  /\ \E k \in 1..Len(assets) :
                     /\ assets[k].subdomain = step.subdomain
                     /\ step.confidence_score =
                          Min(assets[k].risk_score + 5 * CompoundFactors(assets[k]), 95)
                /\ 0 <= step.confidence_score
                /\ step.confidence_score <= 95

\* A graph with a step capped at 95 for an asset at 100 and a step below
\* the cap whose asset has a compound factor.
C13_Witness ==
    /\ pc = "graph"
    /\ \E i, j \in 1..Len(base_graph.attack_path) :
         /\ base_graph.attack_path[i].confidence_score = 95
         /\ \E k \in 1..Len(assets) :
              /\ assets[k].subdomain = base_graph.attack_path[i].subdomain
              /\ assets[k].risk_score = 100
         /\ base_graph.attack_path[j].confidence_score < 95
         /\ \E k \in 1..Len(assets) :
              /\ assets[k].subdomain = base_graph.attack_path[j].subdomain
              /\ CompoundFactors(assets[k]) >= 1
              /\ base_graph.attack_path[j].confidence_score = assets[k].risk_score + 5

\* C14 as stated: with an LLM API key missing from the environment the
\* service still loads (and then serves /simulate and /posture with the
\* deterministic outputs).
C14_Original ==
    ( /\ pc = "boot"
      /\ boot.status # "loading"
      /\ \/ "GROQ_API_KEY" \notin boot.env
         \/ "GEMINI_API_KEY" \notin boot.env ) =>
        boot.status = "up"

\* The Summary schema on a delivered response.
SummarySchemaOk(r) ==
    /\ r.summary.t = "str"
    /\ strip(r.summary.v) # ""
    /\ r.top_risks.t = "list"
    /\ r.recommendations.t = "list"

\* C15 as stated: whatever text the LLM returned, the summary delivered by
\* /summary has a non-empty string summary and lists for top_risks and
\* recommendations.
C15_Original ==
    (pc = "summary" /\ summary_call.response # Unset) =>
        SummarySchemaOk(summary_call.response)

NoDuplicates(s) == \A j, k \in 1..Len(s) : j # k => s[j] # s[k]

\* C16: when runs do not overlap, both caches are empty when a run starts
\* its first lookup, and within one run the exposure API is called at most
\* once per distinct IP, also after a failed call.
C16_CachePerRun ==
    (pc = "runs" /\ ~runs.concurrent) =>
        \A r \in {1, 2} :
            /\ (runs.run[r].pc = "resolve" /\ runs.run[r].i = 1) =>
                   (DOMAIN runs.dns_cache = {} /\ DOMAIN runs.ip_cache = {})
            /\ NoDuplicates(runs.run[r].api_calls)

\* A second run, after a first one that filled the caches, scanned two names
\* on one IP whose only API call failed.
C16_Witness ==
    /\ pc = "runs"
    /\ ~runs.concurrent
    /\ runs.run[1].pc = "done"
    /\ Len(runs.run[1].api_calls) >= 1
    /\ runs.run[2].pc = "done"
    /\ Len(runs.run[2].resolved) = 2
    /\ runs.run[2].resolved[1].ip = runs.run[2].resolved[2].ip
    /\ runs.run[2].api_calls = << runs.run[2].resolved[1].ip >>
    /\ runs.ip_cache[runs.run[2].resolved[1].ip] = EMPTY_RESULT

\* C17 as stated: when two runs interleave, no run reads a cache entry the
\* other run wrote, and no run loses its entries to the other run's clear.
C17_Original ==
    pc = "runs" =>
        \A r \in {1, 2} :
            /\ runs.run[r].foreign_reads = {}
            /\ runs.run[r].lost = {}

\* C18 as stated: get_scan with an id of invalid format returns None and
\* never raises, whatever the state of the database connection.
C18_Original ==
    (pc = "db" /\ mongo.last.op = "get_scan" /\ ~IsObjectId(mongo.last.arg)) =>
        (~mongo.last.raised /\ mongo.last.scan_id = None)

\* C18, amended: get_scan with an id of invalid format returns None without
\* raising whenever _get_db returns, and raises a DatabaseError exactly when
\* the connection attempt made by this call fails.
C18_Amended ==
    (pc = "db" /\ mongo.last.op = "get_scan" /\ ~IsObjectId(mongo.last.arg)) =>
        /\ mongo.last.raised <=> mongo.last.connect_failed
        /\ mongo.last.scan_id = None
        /\ mongo.scans = mongo.last.scans_before

\* An invalid id asked for while documents are stored and the connection
\* is up: a miss.
C18_Witness ==
    /\ pc = "db"
    /\ mongo.last.op = "get_scan"
    /\ mongo.last.arg = "not-an-object-id-at-all!"
    /\ mongo.db_set
    /\ mongo.scans # {}
    /\ ~mongo.last.raised
    /\ mongo.last.status = 404

\* C19: in POST /scan, save_scan is called only after run_recon returned:
\* a recon failure gives 500 and stores nothing, a DatabaseError from
\* save_scan gives 503, and a success response carries the scan_id of the
\* record just stored.
C19_ScanOrdering ==
    (pc = "db" /\ mongo.last.op = "scan") =>
        /\ mongo.last.save_called => mongo.last.recon_ok
        /\ ~mongo.last.recon_ok =>
               (mongo.last.status = 500 /\ mongo.scans = mongo.last.scans_before)
        /\ (mongo.last.recon_ok /\ mongo.last.raised) => mongo.last.status = 503
        /\ mongo.last.status = 200 =>
               /\ mongo.last.recon_ok
               /\ \E d \in mongo.scans : d.scan_id = mongo.last.scan_id
               /\ \A d \in mongo.last.scans_before : d.scan_id # mongo.last.scan_id
        /\ mongo.last.status \in {200, 500, 503}

\* A scan stored after an earlier one, and a save that failed with 503.
C19_Witness ==
    /\ pc = "db"
    /\ mongo.last.op = "scan"
    /\ mongo.last.recon_ok
    /\ mongo.last.raised
    /\ mongo.last.status = 503
    /\ mongo.scans # {}

\* C20 as stated: fetch_subdomains returns at most 15 distinct names, and
\* the bare domain is one of them whenever it resolves, also when more than
\* 15 candidate names resolve.
C20_Original ==
    (pc = "enum" /\ enum.stage = "returned") =>
        /\ enum.len_validated <= MAX_SUBDOMAINS
        /\ Cardinality(enum.validated) = enum.len_validated
        /\ enum.domain_resolves => DomainName \in enum.validated

\* The keyword points the claim C21 describes for a subdomain: 20 for a
\* matching environment keyword, and for a matching admin keyword 5 when the
\* first admin match is the string of the first environment match, else 25.
C21KeywordPoints(subdomain) ==
    LET s == lower(subdomain)
        e == FirstMatch(ENV_KEYWORDS, s)
        a == FirstMatch(ADMIN_KEYWORDS, s)
    IN  (IF e # 0 THEN 20 ELSE 0)
        + (IF a = 0 THEN 0
           ELSE IF e # 0 /\ ADMIN_KEYWORDS[a] = ENV_KEYWORDS[e] THEN 5 ELSE 25)

\* C21: the admin-keyword modifier of calculate_risk is +5 exactly when the
\* first matching admin keyword is the first matching environment keyword
\* and +25 otherwise; with no ports and no shared IP the score is the keyword
\* points, 20 + 5 for admin.example.com and 20 + 25 for admin-dev.example.com.
C21_AdminModifier ==
    (pc = "risk_done" /\ risk_in.open_ports = << >> /\ risk_in.ip_frequency <= 2) =>
        /\ risk_out.risk_score = C21KeywordPoints(risk_in.subdomain)
        /\ risk_in.subdomain = "admin.example.com" => risk_out.risk_score = 25
        /\ risk_in.subdomain = "admin-dev.example.com" => risk_out.risk_score = 45

\* admin-dev.example.com scored with no ports: "dev" is the environment
\* keyword, "admin" the admin keyword.
C21_Witness ==
    /\ pc = "risk_done"
    /\ risk_in.subdomain = "admin-dev.example.com"
    /\ risk_in.open_ports = << >>
    /\ risk_in.ip_frequency = 1
    /\ risk_out.risk_score = 45

\* A port of the fixed sensitive-port table / a port other than 80 and 443.
HasTablePort(asset) == Range(asset.open_ports) \cap DOMAIN SENSITIVE_PORT_MAP # {}
HasOtherPort(asset) == Range(asset.open_ports) \ PUBLIC_WEB_PORTS # {}
HasWebPort(asset) == Range(asset.open_ports) \cap PUBLIC_WEB_PORTS # {}

\* The Stage-1 step a graph must have when `sens` says which candidates
\* have a sensitive port: none when no candidate qualifies, else step 1 on
\* the first qualifying candidate with the technique the rule picks.
Stage1Matches(graph, cands, sens) ==
    LET admin(i) == _is_admin_surface(cands[i].subdomain)
        web(i) == HasWebPort(cands[i])
        qualifies(i) == web(i) \/ i \in sens \/ admin(i) \/ Len(cands[i].open_ports) >= 4
        initial == { k \in 1..Len(graph.attack_path) :
                        graph.attack_path[k].stage = "Initial Access" }
    IN  IF \A i \in 1..Len(cands) : ~qualifies(i)
        THEN initial = {}
        ELSE LET i == CHOOSE i \in 1..Len(cands) :
                          qualifies(i) /\ \A j \in 1..(i - 1) : ~qualifies(j)
                 step == graph.attack_path[1]
             IN  /\ initial = {1}
                 /\ step.subdomain = cands[i].subdomain
                 /\ graph.entry_point = cands[i].subdomain
                 /\ step.mitre_id = IF admin(i) /\ i \in sens THEN "T1078"
                                    ELSE IF i \in sens /\ ~web(i) THEN "T1133"
                                    ELSE "T1190"

\* C22 as stated: Stage 1 selects the first candidate with a web port, a
\* sensitive port, an admin keyword or at least 4 ports, with T1078 for admin
\* and sensitive, T1133 for sensitive without web, else T1190, a sensitive
\* port being a port of the fixed sensitive-port table.
C22_Original ==
    (pc = "graph_out" /\ Len(Candidates(assets, DEFAULT_RISK_THRESHOLD)) > 0) =>
        LET cands == Candidates(assets, DEFAULT_RISK_THRESHOLD)
        IN  Stage1Matches(base_graph, cands,
                          { i \in 1..Len(cands) : HasTablePort(cands[i]) })

\* C22, amended: the same selection and technique rule, a sensitive port
\* being any open port other than 80 and 443.
C22_Amended ==
    (pc = "graph_out" /\ Len(Candidates(assets, DEFAULT_RISK_THRESHOLD)) > 0) =>
        LET cands == Candidates(assets, DEFAULT_RISK_THRESHOLD)
        IN  Stage1Matches(base_graph, cands,
                          { i \in 1..Len(cands) : HasOtherPort(cands[i]) })

\* The entry point is a candidate whose only port is 8080, outside the
\* table: External Remote Services.
C22_Witness ==
    /\ pc = "graph_out"
    /\ Len(base_graph.attack_path) > 0
    /\ base_graph.attack_path[1].mitre_id = "T1133"
    /\ \E i \in 1..Len(assets) :
         /\ assets[i].subdomain = base_graph.entry_point
         /\ assets[i].open_ports = << 8080 >>

PrivescSteps(graph) ==
    { k \in 1..Len(graph.attack_path) :
        graph.attack_path[k].stage = "Privilege Escalation" }

\* The evidence line Stage 2 adds for a port.
PrivescLine(p) ==
    "Port " \o ToString(p) \o " directly accessible from external network"

\* C23: each Privilege Escalation technique key fires at most once: there is
\* one Privilege Escalation step per port of {22, 3389, 3306, 27017, 5432,
\* 6379, 21} open on some candidate, and the step of a port is on the first
\* candidate in score-descending order that exposes it.
C23_PrivescOncePerPort ==
    pc = "graph_out" =>
        LET cands == Candidates(assets, DEFAULT_RISK_THRESHOLD)
            exposes(i, p) == p \in Range(cands[i].open_ports)
            open == { p \in {22, 3389, 3306, 27017, 5432, 6379, 21} :
                        \E i \in 1..Len(cands) : exposes(i, p) }
            steps == PrivescSteps(base_graph)
            of_port(p) ==
                { k \in steps :
                    LET ev == base_graph.attack_path[k].evidence
                    IN  ev[Len(ev)] = PrivescLine(p) }
        IN  /\ Cardinality(steps) = Cardinality(open)
            /\ \A p \in open :
                 LET first == CHOOSE i \in 1..Len(cands) :
                                  exposes(i, p) /\ \A j \in 1..(i - 1) : ~exposes(j, p)
                 IN  /\ Cardinality(of_port(p)) = 1
                     /\ \A k \in of_port(p) :
                          /\ base_graph.attack_path[k].subdomain = cands[first].subdomain
                          /\ base_graph.attack_path[k].mitre_id =
                               MITRE_TECHNIQUES[SENSITIVE_PORT_MAP[p]].mitre_id

\* Two candidates both expose port 22 and the three Privilege Escalation
\* steps (22, 3306, 21) are spread over two assets.
C23_Witness ==
    /\ pc = "graph_out"
    /\ Cardinality(PrivescSteps(base_graph)) = 3
    /\ Cardinality({ base_graph.attack_path[k].subdomain :
                       k \in PrivescSteps(base_graph) }) = 2
    /\ Cardinality({ i \in 1..Len(assets) : 22 \in Range(assets[i].open_ports) }) >= 2

StepsWithId(graph, id) ==
    { k \in 1..Len(graph.attack_path) : graph.attack_path[k].mitre_id = id }

LateralSteps(graph) ==
    { k \in 1..Len(graph.attack_path) :
        graph.attack_path[k].stage = "Lateral Movement" }

AllLowRisk(as) ==
    Len(as) > 0 /\ \A i \in 1..Len(as) : as[i].risk_score < 30

\* C25: for a non-empty asset list whose assets all have risk_score < 30, the
\* report of generate_posture_intelligence has posture_score >= 75 and
\* maturity_level Advanced, on the enhanced path and on the fallback path.
C25_Original ==
    (pc = "posture_out" /\ AllLowRisk(assets)) =>
        /\ report.result.posture_score >= 75
        /\ report.result.maturity_level = "Advanced"

\* The waits of a call whose first n attempts failed: 1.5 s, then 3.0 s.
ExpectedSleeps(n) == SubSeq(<< 15, 30 >>, 1, Min(n, 2))

C26Safety ==
    pc = "gemini" =>
        /\ gemini_call.calls <= 3
        /\ gemini_call.sleeps = ExpectedSleeps(Len(gemini_call.errors))
        \* an attempt starts only after every earlier one has failed
        /\ gemini_call.at = "calling" => gemini_call.calls = Len(gemini_call.errors) + 1
        /\ gemini_call.at \in {"loop", "sleeping"} =>
               gemini_call.calls = Len(gemini_call.errors)
        /\ gemini_call.at = "returned" =>
               /\ gemini_call.calls = Len(gemini_call.errors) + 1
               /\ gemini_call.content \in GeminiTexts
        /\ (gemini_call.at = "raised" /\ gemini_call.key) =>
               /\ gemini_call.calls = 3
               /\ Len(gemini_call.errors) = 3
               /\ gemini_call.sleeps = << 15, 30 >>

C26Done == gemini_call.at \in {"returned", "raised"}

\* C26: _call_gemini ends after at most 3 attempts: it returns the text of
\* the first attempt that succeeds and makes no attempt after it, sleeps 1.5 s
\* after the first failed attempt and 3.0 s after the second, raises after the
\* third failure without sleeping, and starts an attempt only when the one
\* before it has failed.
C26_CallGeminiTerminates ==
    /\ []C26Safety
    /\ [][C26Done => UNCHANGED gemini_call]_vars
    /\ <>C26Done

\* The third attempt succeeded after two failures and both sleeps.
C26_Witness ==
    /\ pc = "gemini"
    /\ gemini_call.at = "returned"
    /\ gemini_call.calls = 3
    /\ gemini_call.sleeps = << 15, 30 >>

\* C27: run_recon does not abort when an exposure lookup fails: it returns
\* one asset per enumerated name that has an IPv4 address, in enumeration
\* order; an asset whose lookup raised has no open ports and no services; and
\* the ip_frequency its score was computed with is the number of resolved
\* names on its IP.
C27_ReconNeverAborts ==
    pc = "recon_out" =>
        LET out == recon.out
            subs == recon.subdomains
            live == SelectSeq(subs, LAMBDA sub : recon.dns[sub] # None)
        IN  /\ ~out.raised
            /\ Len(out.assets) = Len(live)
            /\ \A k \in 1..Len(live) :
                 /\ out.assets[k].subdomain = live[k]
                 /\ out.assets[k].ip = recon.dns[live[k]]
                 /\ out.log[k].lookup \in {"raised", "escaped"} =>
                        /\ out.assets[k].open_ports = << >>
                        /\ "services" \notin DOMAIN out.assets[k]
                 /\ out.log[k].ip_frequency =
                        Cardinality({ sub \in Range(subs) :
                                        recon.dns[sub] = out.assets[k].ip })
                 /\ out.assets[k].risk_score =
                        calculate_risk(live[k], out.assets[k].open_ports,
                                       out.log[k].ip_frequency).risk_score

\* A name without an address was skipped, one lookup left scan_ip with an
\* exception, and a later asset still got its ports and services.
C27_Witness ==
    /\ pc = "recon_out"
    /\ Len(recon.out.assets) = 2
    /\ Len(recon.subdomains) = 3
    /\ recon.out.log[1].lookup = "escaped"
    /\ recon.out.log[2].lookup = "answered"
    /\ "services" \in DOMAIN recon.out.assets[2]

\* C28: the AI enhancement does not override the overall_risk assessment:
\* whatever the LLM answers, the graph returned by generate_attack_simulation
\* has the overall_risk of the deterministic base graph.
C28_Original ==
    pc = "simulated" => simulation.graph.overall_risk = simulation.base.overall_risk

\* C29: in every asset returned by run_recon, the sentinel "No notable risk
\* factors identified" is in risk_factors only as the sole element of the
\* list, also after the Layer-4 adjustment.
C29_Original ==
    pc = "stored" =>
        \A i \in 1..Len(assets) :
            SENTINEL_FACTOR \in Range(assets[i].risk_factors) =>
                assets[i].risk_factors = << SENTINEL_FACTOR >>

\* The last request reached save_scan or get_scan.
DbCallMade ==
    /\ pc = "db"
    /\ mongo.last.op # "none"
    /\ mongo.last.op = "scan" => mongo.last.save_called

\* C30: over any sequence of save_scan and get_scan calls, _get_db never
\* hands back a null handle; a call made while the database is unreachable
\* (connecting and the operation both fail) fails with DB_TIMEOUT,
\* DB_CONNECTION_FAILED or DB_UNAVAILABLE; a call made while it is reachable
\* (both would work) succeeds, also after earlier calls failed to connect.
C30_Original ==
    DbCallMade =>
        /\ ~mongo.last.db_none
        /\ (mongo.last.connect # "ok" /\ ~mongo.last.io_ok) =>
               /\ mongo.last.raised
               /\ mongo.last.code \in {"DB_TIMEOUT", "DB_CONNECTION_FAILED", "DB_UNAVAILABLE"}
        /\ (mongo.last.connect = "ok" /\ mongo.last.io_ok) => ~mongo.last.raised

====
